---- MODULE Spec2Model ----
(***************************************************************************)
(* Hybrid Video Orchestrator: the EDL builder (controller.js buildEDL),    *)
(* the asset fan-out (controller.js orchestrateVideoGeneration) and the    *)
(* render worker (entrypoint.js main / render / generateKenBurnsFilter).   *)
(*                                                                         *)
(* Units: times are in tenths of a second, so that the 0.5 s dissolve is   *)
(* the integer 5; zooms and pans are in hundredths.  Arithmetic on them    *)
(* is exact: the rounding of binary floating point is not represented.     *)
(* A JavaScript object is a record; a property that the object does not    *)
(* carry is a field the record does not have.                              *)
(***************************************************************************)
EXTENDS Integers, Sequences, FiniteSets, TLC

VARIABLES
    pc,         \* position of the running function (builder, orchestrator or worker)
    script,     \* the script: a sequence of scenes
    assets,     \* the asset map: asset key -> asset
    edl,        \* the EDL document, NoEDL before it exists
    tasks,      \* assetPromises: the asset operations issued by the fan-out
    store,      \* the paths written to the object store
    result,     \* what orchestrateVideoGeneration returned, NoResult before
    config,     \* the process's environment (JOB_ID, EDL_PATH, PEXELS_API_KEY set or not)
    stage,      \* the render pipeline's state
    clipIdx,    \* render: the loop variable i, index of the next video clip
    clipPaths,  \* render: the segments rendered so far, in order
    audioPath,  \* render: the audio input handed to the combine step
    files,      \* the worker's local files
    exitCode,   \* the worker's exit code, NotExited while it runs
    failure,    \* the error render threw: the stage it was in and what failed
    mixOutcome, \* how the audio block of render ended, "none" before it
    req,        \* the HTTP request being handled, or the arguments of the call
    res,        \* the HTTP response sent, or what the call returned or threw
    pexels,     \* the answer of the Pexels API to the search under way
    runJobCalls, \* the calls of dispatchRenderJob so far, each with its outcome
    clock,      \* the wall clock read by new Date()
    started,    \* how often each provider call, download or transcoding step was started
    filters,    \* the filter graph of each transcoding command renderClip built, in order
    concat      \* the concatenation command: its segment list and output options, empty before it

\* ------------------------------------------------------------------------
\* Bounds of the model
\* ------------------------------------------------------------------------
MaxScenes == 2
MaxDur == 2

\* ------------------------------------------------------------------------
\* JavaScript helpers
\* ------------------------------------------------------------------------
\* obj.f is not undefined
Has(obj, f) == f \in DOMAIN obj

\* the record obj with field f set to v (obj.f = v)
WithField(obj, f, v) == [g \in (DOMAIN obj) \cup {f} |-> IF g = f THEN v ELSE obj[g]]

\* the object with no properties
EmptyObject == [g \in {} |-> 0]

NoEDL == [version |-> "none"]

\* `visual_${scene.id}`, `audio_${scene.id}`: the role prefix and the scene id
AssetKey(role, sceneId) == <<role, sceneId>>

\* ------------------------------------------------------------------------
\* controller.js buildEDL
\* ------------------------------------------------------------------------
DissolveDuration == 5
DefaultStartZoom == 100
DefaultEndZoom == 115

\* (visualAsset.type === 'generated-image' || visualAsset.type === 'image')
IsImageKind(asset) == asset.type = "generated-image" \/ asset.type = "image"

\* !visualAsset || !audioAsset
SceneSkipped(scene, assetMap) ==
    \/ AssetKey("visual", scene.id) \notin DOMAIN assetMap
    \/ AssetKey("audio", scene.id) \notin DOMAIN assetMap

\* audioAsset.duration || scene.duration  (0 and undefined are falsy)
ClipDuration(scene, audioAsset) ==
    IF Has(audioAsset, "duration") /\ audioAsset.duration # 0
    THEN audioAsset.duration
    ELSE scene.duration

\* kb.startX || 0
PanOrZero(kb, f) == IF Has(kb, f) /\ kb[f] # 0 THEN kb[f] ELSE 0

\* scene.effects?.kenBurns || { startZoom: 1.0, endZoom: 1.15 }
SceneKenBurns(scene) ==
    IF Has(scene, "effects") /\ Has(scene.effects, "kenBurns")
    THEN scene.effects.kenBurns
    ELSE [startZoom |-> DefaultStartZoom, endZoom |-> DefaultEndZoom]

\* the effect pushed for an image clip; kb.startZoom / kb.endZoom are copied
\* as they are, so a kenBurns object without them yields params without them
KenBurnsEffect(scene) ==
    LET kb == SceneKenBurns(scene)
        pans == [startX |-> PanOrZero(kb, "startX"), startY |-> PanOrZero(kb, "startY"),
                 endX |-> PanOrZero(kb, "endX"), endY |-> PanOrZero(kb, "endY"),
                 easing |-> "ease-in-out"]
        z1 == IF Has(kb, "startZoom") THEN WithField(pans, "startZoom", kb.startZoom) ELSE pans
        z2 == IF Has(kb, "endZoom") THEN WithField(z1, "endZoom", kb.endZoom) ELSE z1
    IN [type |-> "ken-burns", params |-> z2]

\* if (currentTime > 0) videoClip.transitions = { in: { type: 'dissolve', duration: 0.5 } }
HasInTransition(currentTime) == currentTime > 0

\* mutant: the effect is attached whenever the scene declares effects.kenBurns
VideoClipDeclaredEffect(scene, visualAsset, currentTime, clipDuration) ==
    LET base == [id |-> <<"clip", scene.id>>,
                 assetId |-> AssetKey("visual", scene.id),
                 startTime |-> currentTime,
                 duration |-> clipDuration,
                 effects |-> IF IsImageKind(visualAsset)
                                \/ (Has(scene, "effects") /\ Has(scene.effects, "kenBurns"))
                             THEN <<KenBurnsEffect(scene)>> ELSE <<>>]
    IN IF HasInTransition(currentTime)
       THEN WithField(base, "transitions",
                      [in |-> [type |-> "dissolve", duration |-> DissolveDuration]])
       ELSE base

VideoClip(scene, visualAsset, currentTime, clipDuration) ==
    LET base == [id |-> <<"clip", scene.id>>,
                 assetId |-> AssetKey("visual", scene.id),
                 startTime |-> currentTime,
                 duration |-> clipDuration,
                 effects |-> IF IsImageKind(visualAsset)
                             THEN <<KenBurnsEffect(scene)>> ELSE <<>>]
    IN IF HasInTransition(currentTime)
       THEN WithField(base, "transitions",
                      [in |-> [type |-> "dissolve", duration |-> DissolveDuration]])
       ELSE base

AudioClip(scene, currentTime, clipDuration) ==
    [id |-> <<"audio_clip", scene.id>>,
     assetId |-> AssetKey("audio", scene.id),
     startTime |-> currentTime,
     duration |-> clipDuration]

\* mutant: a skipped scene still advances the running time by its declared duration
RECURSIVE BuildLoopSkipAdvances(_, _, _, _, _, _)
BuildLoopSkipAdvances(scenes, assetMap, i, currentTime, videoClips, audioClips) ==
    IF i > Len(scenes)
    THEN [currentTime |-> currentTime, video |-> videoClips, audio |-> audioClips]
    ELSE LET scene == scenes[i]
         IN IF SceneSkipped(scene, assetMap)
            THEN BuildLoopSkipAdvances(scenes, assetMap, i + 1,
                                       currentTime + scene.duration, videoClips, audioClips)
            ELSE LET visualAsset == assetMap[AssetKey("visual", scene.id)]
                     audioAsset == assetMap[AssetKey("audio", scene.id)]
                     clipDuration == ClipDuration(scene, audioAsset)
                 IN BuildLoopSkipAdvances(scenes, assetMap, i + 1, currentTime + clipDuration,
                              Append(videoClips,
                                     VideoClip(scene, visualAsset, currentTime, clipDuration)),
                              Append(audioClips,
                                     AudioClip(scene, currentTime, clipDuration)))

\* mutant: the running time advances by the scene's declared duration, not the clip's
RECURSIVE BuildLoopSceneAdvance(_, _, _, _, _, _)
BuildLoopSceneAdvance(scenes, assetMap, i, currentTime, videoClips, audioClips) ==
    IF i > Len(scenes)
    THEN [currentTime |-> currentTime, video |-> videoClips, audio |-> audioClips]
    ELSE LET scene == scenes[i]
         IN IF SceneSkipped(scene, assetMap)
            THEN BuildLoopSceneAdvance(scenes, assetMap, i + 1, currentTime,
                                       videoClips, audioClips)
            ELSE LET visualAsset == assetMap[AssetKey("visual", scene.id)]
                     audioAsset == assetMap[AssetKey("audio", scene.id)]
                     clipDuration == ClipDuration(scene, audioAsset)
                 IN BuildLoopSceneAdvance(scenes, assetMap, i + 1,
                              currentTime + scene.duration,
                              Append(videoClips,
                                     VideoClip(scene, visualAsset, currentTime, clipDuration)),
                              Append(audioClips,
                                     AudioClip(scene, currentTime, clipDuration)))

\* the for loop over script.scenes: the state after the scenes from i on
RECURSIVE BuildLoop(_, _, _, _, _, _)
BuildLoop(scenes, assetMap, i, currentTime, videoClips, audioClips) ==
    IF i > Len(scenes)
    THEN [currentTime |-> currentTime, video |-> videoClips, audio |-> audioClips]
    ELSE LET scene == scenes[i]
         IN IF SceneSkipped(scene, assetMap)
            THEN BuildLoop(scenes, assetMap, i + 1, currentTime, videoClips, audioClips)
            ELSE LET visualAsset == assetMap[AssetKey("visual", scene.id)]
                     audioAsset == assetMap[AssetKey("audio", scene.id)]
                     clipDuration == ClipDuration(scene, audioAsset)
                 IN BuildLoop(scenes, assetMap, i + 1, currentTime + clipDuration,
                              Append(videoClips,
                                     VideoClip(scene, visualAsset, currentTime, clipDuration)),
                              Append(audioClips,
                                     AudioClip(scene, currentTime, clipDuration)))

\* options.f || dflt, for a numeric option (0 is falsy)
NumOptionOr(options, f, dflt) ==
    IF Has(options, f) /\ options[f] # 0 THEN options[f] ELSE dflt

\* options.f || dflt, for a string option ('' is falsy)
StrOptionOr(options, f, dflt) ==
    IF Has(options, f) /\ options[f] # "" THEN options[f] ELSE dflt

DefaultWidth == 1920
DefaultHeight == 1080
DefaultFps == 30
DefaultCrf == 23

buildEDL(scr, assetMap, options, now) ==
    LET loop == BuildLoop(scr.scenes, assetMap, 1, 0, <<>>, <<>>)
    IN [version |-> "1.0.0",
        metadata |-> [title |-> scr.title,
                      createdAt |-> now,
                      outputSettings |->
                          [width |-> NumOptionOr(options, "width", DefaultWidth),
                           height |-> NumOptionOr(options, "height", DefaultHeight),
                           fps |-> NumOptionOr(options, "fps", DefaultFps),
                           format |-> StrOptionOr(options, "format", "mp4"),
                           codec |-> StrOptionOr(options, "codec", "h264"),
                           audioCodec |-> "aac",
                           audioBitrate |-> "192K"]],
        assets |-> assetMap,
        timeline |-> [duration |-> loop.currentTime,
                      tracks |-> << [id |-> "video-main", type |-> "video",
                                     clips |-> loop.video],
                                    [id |-> "audio-narration", type |-> "audio",
                                     clips |-> loop.audio] >>],
        renderSettings |-> [useGpu |-> ~(Has(options, "useGpu") /\ options.useGpu = FALSE),
                            preset |-> StrOptionOr(options, "preset", "medium"),
                            crf |-> NumOptionOr(options, "crf", DefaultCrf)]]

\* gs://${bucket}/jobs/${jobId}/assets/${assetId}${ext}
GcsAssetPath(assetId, ext) == [scheme |-> "gs", name |-> assetId, ext |-> ext]

\* ------------------------------------------------------------------------
\* Inputs of the builder: scripts of up to MaxScenes scenes (scene i has id
\* i), and asset maps over the keys of those scenes
\* ------------------------------------------------------------------------
Durations == 0 .. MaxDur

BuilderScenes(i) == { [id |-> i, duration |-> d] : d \in Durations }

BuilderScripts ==
    UNION { { [title |-> "t", scenes |-> sc] :
                sc \in { s \in [1 .. n -> UNION { BuilderScenes(i) : i \in 1 .. n }] :
                           \A i \in 1 .. n : s[i].id = i } } : n \in 0 .. MaxScenes }

VisualAssets(id) ==
    { [type |-> "generated-image", source |-> GcsAssetPath(AssetKey("visual", id), ".png")],
      [type |-> "pexels-video", source |-> GcsAssetPath(AssetKey("visual", id), ".mp4")] }

AudioAssets(id) ==
    LET a == [type |-> "generated-audio", source |-> GcsAssetPath(AssetKey("audio", id), ".mp3")]
    IN {a} \cup { WithField(a, "duration", d) : d \in Durations }

SlotAssets(key) == IF key[1] = "visual" THEN VisualAssets(key[2]) ELSE AudioAssets(key[2])

SceneKeys(n) == { AssetKey(r, i) : r \in {"visual", "audio"}, i \in 1 .. n }

\* every asset map over a subset of the keys K
RECURSIVE MapsOver(_)
MapsOver(K) ==
    IF K = {} THEN {EmptyObject}
    ELSE LET k == CHOOSE x \in K : TRUE
             rest == MapsOver(K \ {k})
         IN rest \cup { WithField(m, k, a) : m \in rest, a \in SlotAssets(k) }

\* every asset map whose keys are among the slots of scenes 1..n
AssetMaps(n) == MapsOver(SceneKeys(n))

orchVars == <<tasks, store, result>>

renderVars == <<config, stage, clipIdx, clipPaths, audioPath, files, exitCode,
               failure, mixOutcome, filters, concat>>

routeVars == <<req, res, pexels, runJobCalls, clock, started>>

vars == <<pc, script, assets, edl, tasks, store, result,
          config, stage, clipIdx, clipPaths, audioPath, files, exitCode,
          failure, mixOutcome, req, res, pexels, runJobCalls, clock, started, filters,
          concat>>

NotExited == -1
NoFailure == [at |-> "none", what |-> <<"none", 0>>]
\* a local path: directory, file name (a name and a number) and extension
LocalPath(dir, name, ext) == [dir |-> dir, name |-> name, ext |-> ext]

\* audioPath = null
NoPath == LocalPath("null", <<"null", 0>>, "")

\* the render worker has not started
RenderIdle ==
    /\ config = [edlPath |-> FALSE]
    /\ stage = "NotStarted"
    /\ clipIdx = 0
    /\ clipPaths = <<>>
    /\ audioPath = NoPath
    /\ files = {}
    /\ exitCode = NotExited
    /\ failure = NoFailure
    /\ mixOutcome = "none"
    /\ filters = <<>>
    /\ concat = EmptyObject

NoResult == [status |-> "none"]

\* an operation of a job: its name and the asset key or clip it works on
Op(name, key) == <<name, key[1], key[2]>>

\* the operation op is started once more
Start(op) ==
    started' = IF op \in DOMAIN started
               THEN [started EXCEPT ![op] = @ + 1]
               ELSE WithField(started, op, 1)

NoRequest == [route |-> "none"]
NoResponse == [status |-> 0]
NoAnswer == [videos |-> <<>>]

\* no request is being handled and no search is under way
RoutesIdle ==
    /\ req = NoRequest
    /\ res = NoResponse
    /\ pexels = NoAnswer
    /\ runJobCalls = <<>>
    /\ clock = 0
    /\ started = EmptyObject

InitEDL ==
    /\ pc = "build"
    /\ script \in BuilderScripts
    /\ assets \in AssetMaps(Len(script.scenes))
    /\ edl = NoEDL
    /\ tasks = <<>>
    /\ store = {}
    /\ result = NoResult
    /\ RenderIdle
    /\ RoutesIdle

\* const edl = buildEDL(script, assets, options)
Build ==
    /\ pc = "build"
    /\ edl' = buildEDL(script, assets, EmptyObject, clock)
    /\ pc' = "built"
    /\ UNCHANGED <<script, assets>>
    /\ UNCHANGED orchVars
    /\ UNCHANGED renderVars
    /\ UNCHANGED routeVars

NextEDL == Build

SpecEDL == InitEDL /\ [][NextEDL]_vars

\* ------------------------------------------------------------------------
\* Inputs of the builder for the effects of a clip: scenes that declare no
\* effects, effects without kenBurns, or a kenBurns object (complete, without
\* zooms, without pans), and visual assets of every type a caller may record
\* ------------------------------------------------------------------------
KenBurnsObjects ==
    { [startZoom |-> 100, endZoom |-> 130, startX |-> 10, startY |-> 0, endX |-> 0,
       endY |-> 20],
      [startZoom |-> 120, endZoom |-> 100],
      [startX |-> 10, endY |-> 20] }

EffectScenes(i) ==
    LET base == [id |-> i, duration |-> MaxDur]
    IN {base, WithField(base, "effects", EmptyObject)}
       \cup { WithField(base, "effects", [kenBurns |-> kb]) : kb \in KenBurnsObjects }

EffectScripts ==
    UNION { { [title |-> "t", scenes |-> sc] :
                sc \in { s \in [1 .. n -> UNION { EffectScenes(i) : i \in 1 .. n }] :
                           \A i \in 1 .. n : s[i].id = i } } : n \in 0 .. MaxScenes }

EffectAssets(id) ==
    { [type |-> ty, source |-> GcsAssetPath(AssetKey("visual", id), ext)] :
        <<ty, ext>> \in { <<"generated-image", ".png">>, <<"image", ".png">>,
                          <<"pexels-video", ".mp4">>, <<"video", ".mp4">> } }

\* every scene has its narration; its visual asset is of any type or missing
EffectAssetMaps(n) ==
    LET audio == [k \in { AssetKey("audio", i) : i \in 1 .. n } |->
                     [type |-> "generated-audio", source |-> GcsAssetPath(k, ".mp3")]]
        RECURSIVE add(_, _)
        add(i, maps) ==
            IF i > n THEN maps
            ELSE add(i + 1, maps \cup { WithField(m, AssetKey("visual", i), a) :
                                          m \in maps, a \in EffectAssets(i) })
    IN add(1, {audio})

InitEffects ==
    /\ pc = "build"
    /\ script \in EffectScripts
    /\ assets \in EffectAssetMaps(Len(script.scenes))
    /\ edl = NoEDL
    /\ tasks = <<>>
    /\ store = {}
    /\ result = NoResult
    /\ RenderIdle
    /\ RoutesIdle


\* ------------------------------------------------------------------------
\* controller.js searchPexelsVideo.  The provider answers with a list of
\* videos, each with a duration and a non-empty list of encodes (video_files);
\* ok is FALSE when the HTTP request itself failed.
\* ------------------------------------------------------------------------
MaxVideos == 2
DefaultMinDuration == 50

Threw(message) == [threw |-> TRUE, message |-> message]
Returned(value) == [threw |-> FALSE, value |-> value]

\* mutant: the floor is exclusive
MeetsFloorStrict(v, minDuration) == v.duration > minDuration

\* v => v.duration >= minDuration
MeetsFloor(v, minDuration) == v.duration >= minDuration

\* video.video_files.find(f => f.quality === 'hd') || video.video_files[0]
HdFile(video) ==
    LET hd == { j \in 1 .. Len(video.video_files) : video.video_files[j].quality = "hd" }
    IN IF hd # {}
       THEN video.video_files[CHOOSE j \in hd : \A h \in hd : j <= h]
       ELSE video.video_files[1]

\* { id: video.id, url: hdFile.link, duration: video.duration, ... }
VideoResult(video) ==
    [id |-> video.id, url |-> HdFile(video).link, duration |-> video.duration]

\* async function searchPexelsVideo(query, minDuration = 5)
searchPexelsVideo(cfg, answer, args) ==
    LET minDuration == IF Has(args, "minDuration") THEN args.minDuration
                       ELSE DefaultMinDuration
    IN IF ~cfg.pexelsApiKey
       THEN Threw("PEXELS_API_KEY environment variable is not set")
       ELSE IF ~answer.ok
       THEN Threw("request failed")
       ELSE LET videos == SelectSeq(answer.videos, LAMBDA v : MeetsFloor(v, minDuration))
            IN IF Len(videos) = 0
               THEN IF Len(answer.videos) > 0
                    THEN Returned(VideoResult(answer.videos[1]))
                    ELSE Threw("No Pexels videos found")
               ELSE Returned(VideoResult(videos[1]))

\* the encodes of video i: one or two files, each hd or sd; the link of an
\* encode names the video and the encode's position
VideoFiles(i) ==
    UNION { { f \in [1 .. n -> { [quality |-> q, link |-> <<i, j>>] :
                                   q \in {"hd", "sd"}, j \in 1 .. 2 }] :
                \A j \in 1 .. n : f[j].link = <<i, j>> } : n \in 1 .. 2 }

PexelsVideos(i) ==
    { [id |-> i, duration |-> d, video_files |-> f] : d \in Durations, f \in VideoFiles(i) }

PexelsAnswers ==
    { [ok |-> FALSE, videos |-> <<>>] }
    \cup UNION { { [ok |-> TRUE, videos |-> vs] :
                     vs \in { s \in [1 .. n -> UNION { PexelsVideos(i) : i \in 1 .. n }] :
                                \A i \in 1 .. n : s[i].id = i } } : n \in 0 .. MaxVideos }

SearchArgs ==
    { [query |-> "query"] } \cup { [query |-> "query", minDuration |-> d] : d \in Durations }

InitSearch ==
    /\ pc = "search"
    /\ script = [title |-> "t", scenes |-> <<>>]
    /\ assets = EmptyObject
    /\ edl = NoEDL
    /\ tasks = <<>>
    /\ store = {}
    /\ result = NoResult
    /\ config \in {[pexelsApiKey |-> TRUE], [pexelsApiKey |-> FALSE]}
    /\ stage = "NotStarted"
    /\ clipIdx = 0
    /\ clipPaths = <<>>
    /\ audioPath = NoPath
    /\ files = {}
    /\ exitCode = NotExited
    /\ failure = NoFailure
    /\ mixOutcome = "none"
    /\ filters = <<>>
    /\ concat = EmptyObject
    /\ req \in SearchArgs
    /\ res = NoResponse
    /\ pexels \in PexelsAnswers
    /\ runJobCalls = <<>>
    /\ clock = 0
    /\ started = EmptyObject

\* one call of searchPexelsVideo
Search ==
    /\ pc = "search"
    /\ res' = searchPexelsVideo(config, pexels, req)
    /\ pc' = "searched"
    /\ UNCHANGED <<script, assets, edl, tasks, store, result, req, pexels, runJobCalls, clock, started>>
    /\ UNCHANGED renderVars

NextSearch == Search

SpecSearch == InitSearch /\ [][NextSearch]_vars

\* ------------------------------------------------------------------------
\* controller.js orchestrateVideoGeneration: script, fan-out, build, save,
\* dispatch.  A task is one promise pushed to assetPromises; st is the await
\* it is suspended at, "fulfilled" or "rejected".
\* ------------------------------------------------------------------------
MaxFanoutScenes == 2
WordsPerMinute == 150

\* (wordCount / wordsPerMinute) * 60 at speakingRate 1.0, in tenths of a second
EstimatedDuration(wordCount) == (wordCount * 600) \div WordsPerMinute

\* the scenes Gemini may return at position i; narration is its number of
\* words (0: the empty string).  imagePrompt is read only for an image scene,
\* searchQuery only for a video scene or an image scene that has a prompt.
FanoutScenes(i) ==
    LET base(vt) == { [id |-> i, duration |-> MaxDur, visualType |-> vt, narration |-> n,
                       visualDescription |-> "description"] : n \in {0, 1} }
        prompted == { WithField(sc, "imagePrompt", "prompt") : sc \in base("image") }
    IN base("image") \cup prompted \cup base("video")
       \cup { WithField(sc, "searchQuery", "query") : sc \in prompted \cup base("video") }

FanoutScripts ==
    UNION { { [title |-> "t", scenes |-> sc] :
                sc \in { s \in [1 .. n -> UNION { FanoutScenes(i) : i \in 1 .. n }] :
                           \A i \in 1 .. n : s[i].id = i } } : n \in 0 .. MaxFanoutScenes }

\* scene.visualType === 'image' && scene.imagePrompt
IssuesImage(scene) == scene.visualType = "image" /\ Has(scene, "imagePrompt")

\* else if (scene.visualType === 'video' && scene.searchQuery)
IssuesVideo(scene) ==
    ~IssuesImage(scene) /\ scene.visualType = "video" /\ Has(scene, "searchQuery")

\* mutant: the narration is synthesised for every scene
IssuesSpeechAlways(scene) == TRUE

\* if (scene.narration)
IssuesSpeech(scene) == scene.narration # 0

\* mutant: the fallback always searches for the scene's visualDescription
FallbackQueryDescriptionOnly(scene) == scene.visualDescription

\* scene.searchQuery || scene.visualDescription
FallbackQuery(scene) == IF Has(scene, "searchQuery") THEN scene.searchQuery
                        ELSE scene.visualDescription

\* mutant: the narration result is recorded under the scene's visual key
SceneTasksSharedKey(scene) ==
    (IF IssuesImage(scene)
     THEN << [kind |-> "image", scene |-> scene.id,
              key |-> AssetKey("visual", scene.id), st |-> "imagen"] >>
     ELSE IF IssuesVideo(scene)
     THEN << [kind |-> "video", scene |-> scene.id,
              key |-> AssetKey("visual", scene.id), st |-> "search",
              query |-> scene.searchQuery, minDuration |-> scene.duration] >>
     ELSE <<>>)
    \o
    (IF IssuesSpeech(scene)
     THEN << [kind |-> "speech", scene |-> scene.id,
              key |-> AssetKey("visual", scene.id), st |-> "tts"] >>
     ELSE <<>>)

\* the promises one scene pushes, in push order
SceneTasks(scene) ==
    (IF IssuesImage(scene)
     THEN << [kind |-> "image", scene |-> scene.id,
              key |-> AssetKey("visual", scene.id), st |-> "imagen"] >>
     ELSE IF IssuesVideo(scene)
     THEN << [kind |-> "video", scene |-> scene.id,
              key |-> AssetKey("visual", scene.id), st |-> "search",
              query |-> scene.searchQuery, minDuration |-> scene.duration] >>
     ELSE <<>>)
    \o
    (IF IssuesSpeech(scene)
     THEN << [kind |-> "speech", scene |-> scene.id,
              key |-> AssetKey("audio", scene.id), st |-> "tts"] >>
     ELSE <<>>)

\* for (const scene of script.scenes) { ... assetPromises.push(...) ... }
RECURSIVE IssueTasks(_, _)
IssueTasks(scenes, i) ==
    IF i > Len(scenes) THEN <<>>
    ELSE SceneTasks(scenes[i]) \o IssueTasks(scenes, i + 1)

SceneById(id) == script.scenes[CHOOSE i \in 1 .. Len(script.scenes) : script.scenes[i].id = id]

Settled(t) == t.st \in {"fulfilled", "rejected"}

\* const jobId = request.jobId || uuidv4(): the id of the job at hand
JobId == 0

EdlStorePath == [scheme |-> "gs", name |-> <<"edl", 0>>, ext |-> ".json"]

InitOrch ==
    /\ pc = "script"
    /\ script = [title |-> "t", scenes |-> <<>>]
    /\ assets = EmptyObject
    /\ edl = NoEDL
    /\ tasks = <<>>
    /\ store = {}
    /\ result = NoResult
    /\ RenderIdle
    /\ RoutesIdle

\* const script = await generateScriptWithGemini(topic, targetDuration)
GenerateScript ==
    /\ pc = "script"
    /\ \/ /\ script' \in FanoutScripts
          /\ pc' = "fanout"
       \/ /\ pc' = "threw"
          /\ UNCHANGED script
    /\ UNCHANGED <<assets, edl, tasks, store, result>>
    /\ UNCHANGED renderVars
    /\ UNCHANGED routeVars

\* the for loop that starts every asset operation
FanOut ==
    /\ pc = "fanout"
    /\ tasks' = IssueTasks(script.scenes, 1)
    /\ pc' = "await"
    /\ UNCHANGED <<script, assets, edl, store, result>>
    /\ UNCHANGED renderVars
    /\ UNCHANGED routeVars

SetTask(t, f, v) == [tasks EXCEPT ![t] = WithField(tasks[t], f, v)]

\* .catch(err => searchPexelsVideo(scene.searchQuery || scene.visualDescription, scene.duration) ...)
StartFallback(t) ==
    [tasks EXCEPT ![t] = WithField(WithField(WithField(tasks[t], "st", "search"),
                                             "query", FallbackQuery(SceneById(tasks[t].scene))),
                                   "minDuration", SceneById(tasks[t].scene).duration)]

\* mutant: a rejected image generation is started again
GenerateImageRetried(t) ==
    /\ tasks[t].st = "imagen"
    /\ \/ /\ store' = store \cup {GcsAssetPath(tasks[t].key, ".png")}
          /\ assets' = WithField(assets, tasks[t].key,
                                 [type |-> "generated-image",
                                  source |-> GcsAssetPath(tasks[t].key, ".png"),
                                  prompt |-> SceneById(tasks[t].scene).imagePrompt])
          /\ tasks' = SetTask(t, "st", "fulfilled")
       \/ UNCHANGED <<tasks, store, assets>>
    /\ UNCHANGED <<pc, script, edl, result>>
    /\ UNCHANGED renderVars
    /\ Start(Op("imagen", tasks[t].key))
    /\ UNCHANGED <<req, res, pexels, runJobCalls, clock>>

\* generateImageWithImagen(...).then(gcsPath => assets[visualAssetId] = generated-image)
\* fulfilled: the image is uploaded and the asset recorded; rejected: the catch
\* handler starts the footage fallback
GenerateImage(t) ==
    /\ tasks[t].st = "imagen"
    /\ \/ /\ store' = store \cup {GcsAssetPath(tasks[t].key, ".png")}
          /\ assets' = WithField(assets, tasks[t].key,
                                 [type |-> "generated-image",
                                  source |-> GcsAssetPath(tasks[t].key, ".png"),
                                  prompt |-> SceneById(tasks[t].scene).imagePrompt])
          /\ tasks' = SetTask(t, "st", "fulfilled")
       \/ /\ tasks' = StartFallback(t)
          /\ UNCHANGED <<store, assets>>
    /\ UNCHANGED <<pc, script, edl, result>>
    /\ UNCHANGED renderVars
    /\ Start(Op("imagen", tasks[t].key))
    /\ UNCHANGED <<req, res, pexels, runJobCalls, clock>>

\* searchPexelsVideo(query, minDuration)
PexelsSearch(t) ==
    /\ tasks[t].st = "search"
    /\ \/ tasks' = SetTask(t, "st", "download")
       \/ tasks' = SetTask(t, "st", "rejected")
    /\ UNCHANGED <<pc, script, assets, edl, store, result>>
    /\ UNCHANGED renderVars
    /\ Start(Op("search", tasks[t].key))
    /\ UNCHANGED <<req, res, pexels, runJobCalls, clock>>

\* downloadPexelsVideoToGCS(...).then(gcsPath => assets[visualAssetId] = pexels-video)
PexelsDownload(t) ==
    /\ tasks[t].st = "download"
    /\ \/ /\ store' = store \cup {GcsAssetPath(tasks[t].key, ".mp4")}
          /\ assets' = WithField(assets, tasks[t].key,
                                 [type |-> "pexels-video",
                                  source |-> GcsAssetPath(tasks[t].key, ".mp4"),
                                  searchQuery |-> tasks[t].query])
          /\ tasks' = SetTask(t, "st", "fulfilled")
       \/ /\ tasks' = SetTask(t, "st", "rejected")
          /\ UNCHANGED <<store, assets>>
    /\ UNCHANGED <<pc, script, edl, result>>
    /\ UNCHANGED renderVars
    /\ Start(Op("download", tasks[t].key))
    /\ UNCHANGED <<req, res, pexels, runJobCalls, clock>>

\* generateSpeechWithTTS(...).then(result => assets[audioAssetId] = generated-audio)
GenerateSpeech(t) ==
    /\ tasks[t].st = "tts"
    /\ \/ /\ store' = store \cup {GcsAssetPath(tasks[t].key, ".mp3")}
          /\ assets' = WithField(assets, tasks[t].key,
                                 [type |-> "generated-audio",
                                  source |-> GcsAssetPath(tasks[t].key, ".mp3"),
                                  duration |->
                                      EstimatedDuration(SceneById(tasks[t].scene).narration)])
          /\ tasks' = SetTask(t, "st", "fulfilled")
       \/ /\ tasks' = SetTask(t, "st", "rejected")
          /\ UNCHANGED <<store, assets>>
    /\ UNCHANGED <<pc, script, edl, result>>
    /\ UNCHANGED renderVars
    /\ Start(Op("tts", tasks[t].key))
    /\ UNCHANGED <<req, res, pexels, runJobCalls, clock>>

\* one step of one asset operation
TaskStep ==
    \E t \in DOMAIN tasks :
        \/ GenerateImage(t)
        \/ PexelsSearch(t)
        \/ PexelsDownload(t)
        \/ GenerateSpeech(t)

\* Promise.all resolves once every promise is fulfilled
AllFulfilled(ts) == \A t \in DOMAIN ts : ts[t].st = "fulfilled"

\* Promise.all rejects as soon as one promise is rejected
SomeRejected(ts) == \E t \in DOMAIN ts : ts[t].st = "rejected"

\* await Promise.all(assetPromises)
AwaitAll ==
    /\ pc = "await"
    /\ \/ /\ AllFulfilled(tasks)
          /\ pc' = "buildEdl"
       \/ /\ SomeRejected(tasks)
          /\ pc' = "threw"
    /\ UNCHANGED <<script, assets, edl, tasks, store, result>>
    /\ UNCHANGED renderVars
    /\ UNCHANGED routeVars

\* const edl = buildEDL(script, assets, options)
OrchBuildEDL ==
    /\ pc = "buildEdl"
    /\ edl' = buildEDL(script, assets, EmptyObject, clock)
    /\ pc' = "saveEdl"
    /\ UNCHANGED <<script, assets, tasks, store, result>>
    /\ UNCHANGED renderVars
    /\ UNCHANGED routeVars

\* mutant: a failed save of the EDL is not thrown, the dispatch follows
SaveEDLFailureIgnored ==
    /\ pc = "saveEdl"
    /\ \/ /\ store' = store \cup {EdlStorePath}
          /\ pc' = "dispatch"
       \/ /\ pc' = "dispatch"
          /\ UNCHANGED store
    /\ UNCHANGED <<script, assets, edl, tasks, result>>
    /\ UNCHANGED renderVars
    /\ UNCHANGED routeVars

\* await storage...file(edlPath).save(JSON.stringify(edl, null, 2))
SaveEDL ==
    /\ pc = "saveEdl"
    /\ \/ /\ store' = store \cup {EdlStorePath}
          /\ pc' = "dispatch"
       \/ /\ pc' = "threw"
          /\ UNCHANGED store
    /\ UNCHANGED <<script, assets, edl, tasks, result>>
    /\ UNCHANGED renderVars
    /\ UNCHANGED routeVars

OrchResult(renderExecution) ==
    [jobId |-> JobId,
     status |-> "processing",
     edlPath |-> EdlStorePath,
     assetCount |-> Cardinality(DOMAIN assets),
     estimatedDuration |-> edl.timeline.duration,
     renderExecution |-> renderExecution]

\* one call of dispatchRenderJob(jobId, edlPath) that resolved (ok) or rejected
RunJobCall(jobId, edlPath, ok) == [jobId |-> jobId, edlPath |-> edlPath, ok |-> ok]

\* mutant: the dispatch is awaited outside any try block
DispatchUncaught ==
    /\ pc = "dispatch"
    /\ \/ /\ result' = OrchResult("dispatched")
          /\ runJobCalls' = Append(runJobCalls, RunJobCall(JobId, EdlStorePath, TRUE))
          /\ pc' = "returned"
       \/ /\ runJobCalls' = Append(runJobCalls, RunJobCall(JobId, EdlStorePath, FALSE))
          /\ pc' = "threw"
          /\ UNCHANGED result
    /\ UNCHANGED <<script, assets, edl, tasks, store>>
    /\ UNCHANGED renderVars
    /\ UNCHANGED <<req, res, pexels, clock, started>>

\* try { renderExecution = await dispatchRenderJob(...) } catch { warn }; return {...}
Dispatch ==
    /\ pc = "dispatch"
    /\ \/ /\ result' = OrchResult("dispatched")
          /\ runJobCalls' = Append(runJobCalls, RunJobCall(JobId, EdlStorePath, TRUE))
       \/ /\ result' = OrchResult("null")
          /\ runJobCalls' = Append(runJobCalls, RunJobCall(JobId, EdlStorePath, FALSE))
    /\ pc' = "returned"
    /\ UNCHANGED <<script, assets, edl, tasks, store>>
    /\ UNCHANGED renderVars
    /\ UNCHANGED <<req, res, pexels, clock, started>>

NextOrch ==
    \/ GenerateScript
    \/ FanOut
    \/ TaskStep
    \/ AwaitAll
    \/ OrchBuildEDL
    \/ SaveEDL
    \/ Dispatch

SpecOrch == InitOrch /\ [][NextOrch]_vars

\* ------------------------------------------------------------------------
\* entrypoint.js: the render worker (main, render, mixAudioTracks)
\* ------------------------------------------------------------------------
MaxClips == 2

\* hand-authored or built EDLs given to the worker.  Slot n of the timeline has
\* a visual shape: a clip on a stored image ("image"), on stored footage
\* ("video"), on an asset id missing from assets ("missing"), on an asset whose
\* source is not in the object store ("remote"), or no clip but a stored asset
\* ("unreferenced"); and an audio shape: a clip on stored audio ("audio"), a
\* clip on a missing asset id ("missing"), or nothing ("none").
VisualShapes == {"image", "video", "missing", "remote", "unreferenced"}
AudioShapes == {"audio", "missing", "none"}

ShapeAssets(shapes) ==
    LET keys == { AssetKey("visual", n) : n \in { m \in DOMAIN shapes : shapes[m].v # "missing" } }
                \cup { AssetKey("audio", n) : n \in { m \in DOMAIN shapes : shapes[m].a = "audio" } }
        asset(k) ==
            IF k[1] = "audio"
            THEN [type |-> "generated-audio", source |-> GcsAssetPath(k, ".mp3"),
                  duration |-> MaxDur]
            ELSE IF shapes[k[2]].v = "video"
            THEN [type |-> "pexels-video", source |-> GcsAssetPath(k, ".mp4")]
            ELSE IF shapes[k[2]].v = "remote"
            THEN [type |-> "image", source |-> [scheme |-> "https", name |-> k, ext |-> ".png"]]
            ELSE [type |-> "generated-image", source |-> GcsAssetPath(k, ".png")]
    IN [k \in keys |-> asset(k)]

\* the clips of the slots from n on, placed back to back from startTime
RECURSIVE ShapeClips(_, _, _, _)
ShapeClips(shapes, role, n, startTime) ==
    IF n > Len(shapes) THEN <<>>
    ELSE IF role = "visual" /\ shapes[n].v = "unreferenced"
         THEN ShapeClips(shapes, role, n + 1, startTime)
    ELSE IF role = "audio" /\ shapes[n].a = "none"
         THEN ShapeClips(shapes, role, n + 1, startTime + MaxDur)
    ELSE << IF role = "visual"
            THEN [id |-> <<"clip", n>>, assetId |-> AssetKey("visual", n),
                  startTime |-> startTime, duration |-> MaxDur, effects |-> <<>>]
            ELSE [id |-> <<"audio_clip", n>>, assetId |-> AssetKey("audio", n),
                  startTime |-> startTime, duration |-> MaxDur] >>
         \o ShapeClips(shapes, role, n + 1, startTime + MaxDur)

ShapeEDL(shapes, videoTrack, audioTrack) ==
    LET v == ShapeClips(shapes, "visual", 1, 0)
        a == ShapeClips(shapes, "audio", 1, 0)
    IN [version |-> "1.0.0",
        metadata |-> [title |-> "t",
                      outputSettings |-> [width |-> DefaultWidth, height |-> DefaultHeight,
                                          fps |-> DefaultFps, format |-> "mp4",
                                          codec |-> "h264", audioCodec |-> "aac",
                                          audioBitrate |-> "192K"]],
        assets |-> ShapeAssets(shapes),
        timeline |-> [duration |-> Len(v) * MaxDur,
                      tracks |-> (IF videoTrack
                                  THEN << [id |-> "video-main", type |-> "video", clips |-> v] >>
                                  ELSE <<>>)
                                 \o
                                 (IF audioTrack
                                  THEN << [id |-> "audio-narration", type |-> "audio",
                                           clips |-> a] >>
                                  ELSE <<>>)],
        renderSettings |-> [useGpu |-> TRUE, preset |-> "medium", crf |-> DefaultCrf]]

\* a track may be left out of the document only when it would have no clips
RenderEDLs ==
    UNION { UNION { { ShapeEDL(shapes, vt, at) :
                        vt \in { b \in BOOLEAN : b \/ ShapeClips(shapes, "visual", 1, 0) = <<>> },
                        at \in { b \in BOOLEAN : b \/ ShapeClips(shapes, "audio", 1, 0) = <<>> } } :
                    shapes \in [1 .. n -> [v : VisualShapes, a : AudioShapes]] } :
            n \in 0 .. MaxClips }

NoTrack == [type |-> "none", clips |-> <<>>]

\* edl.timeline.tracks.find(t => t.type === type)
FindTrack(e, type) ==
    LET tr == e.timeline.tracks
        hits == { n \in 1 .. Len(tr) : tr[n].type = type }
    IN IF hits = {} THEN NoTrack
       ELSE tr[CHOOSE n \in hits : \A m \in hits : n <= m]

\* asset.source && asset.source.startsWith('gs://')
IsGcsSource(asset) == Has(asset, "source") /\ asset.source.scheme = "gs"

\* asset.type.includes('image'), asset.type.includes('audio')
TypeIncludes(type, word) ==
    \/ word = "image" /\ type \in {"generated-image", "image"}
    \/ word = "audio" /\ type \in {"generated-audio", "audio"}
    \/ word = "video" /\ type \in {"pexels-video", "video"}

\* path.extname(asset.source) || (image ? '.png' : audio ? '.mp3' : '.mp4')
DownloadExt(asset) ==
    IF asset.source.ext # "" THEN asset.source.ext
    ELSE IF TypeIncludes(asset.type, "image") THEN ".png"
    ELSE IF TypeIncludes(asset.type, "audio") THEN ".mp3"
    ELSE ".mp4"

\* path.join(assetsDir, `${assetId}${ext}`)
LocalAssetPath(assetId, ext) == LocalPath("assets", assetId, ext)

\* path.join(clipsDir, `clip_${i}.mp4`)
ClipPath(n) == LocalPath("clips", <<"clip", n>>, ".mp4")

ConcatenatedPath == LocalPath("output", <<"video_only", 0>>, ".mp4")
MixedAudioPath == LocalPath("output", <<"audio_mixed", 0>>, ".aac")
FinalPath == LocalPath("output", <<"final", 0>>, ".mp4")

\* gs://${bucket}/jobs/${jobId}/output/final.mp4
OutputStorePath == [scheme |-> "gs", name |-> <<"final", 0>>, ext |-> ".mp4"]

\* the same under the environment cfg: without JOB_ID the path is
\* jobs/undefined/output/final.mp4, the job "undefined" being -1 here
UploadPath(cfg) ==
    IF cfg.jobId THEN OutputStorePath ELSE [OutputStorePath EXCEPT !.name = <<"final", -1>>]

InitRender ==
    /\ pc = "main"
    /\ script = [title |-> "t", scenes |-> <<>>]
    /\ edl \in RenderEDLs
    /\ assets = EmptyObject
    /\ tasks = <<>>
    /\ store = {EdlStorePath}
    /\ result = NoResult
    /\ config \in {[edlPath |-> TRUE, jobId |-> TRUE], [edlPath |-> FALSE, jobId |-> TRUE]}
    /\ stage = "NotStarted"
    /\ clipIdx = 0
    /\ clipPaths = <<>>
    /\ audioPath = NoPath
    /\ files = {}
    /\ exitCode = NotExited
    /\ failure = NoFailure
    /\ mixOutcome = "none"
    /\ filters = <<>>
    /\ concat = EmptyObject
    /\ RoutesIdle

idle == <<script, tasks, result, config, edl, req, res, pexels, runJobCalls, clock, started, filters,
         concat>>

\* process.exit(code)
Exit(code) ==
    /\ pc' = "exited"
    /\ exitCode' = code

\* render throws; main's catch logs the error and exits 1
RenderFails(what) ==
    /\ stage' = "Failed"
    /\ failure' = [at |-> stage, what |-> what]
    /\ Exit(1)

\* the worker goes on: nothing was thrown
GoesOn == UNCHANGED <<pc, exitCode, failure>>

\* main: if (!config.edlPath) process.exit(1)
CheckConfig ==
    /\ pc = "main"
    /\ IF config.edlPath
       THEN pc' = "loadEdl" /\ UNCHANGED exitCode
       ELSE Exit(1)
    /\ UNCHANGED <<assets, store, stage, clipIdx, clipPaths, audioPath, files,
                   failure, mixOutcome>>
    /\ UNCHANGED idle

\* main: download and parse the EDL, then call render (const assets = edl.assets)
LoadEDL ==
    /\ pc = "loadEdl"
    /\ \/ /\ pc' = "render"
          /\ stage' = "Downloading"
          /\ assets' = edl.assets
          /\ UNCHANGED exitCode
       \/ /\ Exit(1)
          /\ UNCHANGED <<stage, assets>>
    /\ UNCHANGED <<store, clipIdx, clipPaths, audioPath, files, failure, mixOutcome>>
    /\ UNCHANGED idle

\* the entries the download loop has still to fetch
PendingDownloads ==
    { k \in DOMAIN assets : IsGcsSource(assets[k]) /\ ~Has(assets[k], "_localPath") }

\* mutant: the download also points the asset's source at the local file
DownloadAssetSourceRewritten ==
    /\ pc = "render" /\ stage = "Downloading"
    /\ \E k \in PendingDownloads :
          LET localPath == LocalAssetPath(k, DownloadExt(assets[k]))
          IN /\ Start(Op("fetch", k))
             /\ \/ /\ files' = files \cup {localPath}
                   /\ assets' = [assets EXCEPT ![k] =
                                   WithField(WithField(assets[k], "_localPath", localPath),
                                             "source", [scheme |-> "file",
                                                        name |-> localPath.name,
                                                        ext |-> localPath.ext])]
                   /\ GoesOn
                   /\ UNCHANGED stage
                \/ /\ RenderFails(k)
                   /\ UNCHANGED <<files, assets>>
    /\ UNCHANGED <<store, clipIdx, clipPaths, audioPath, mixOutcome>>
    /\ UNCHANGED <<script, tasks, result, config, edl, req, res, pexels, runJobCalls, clock, filters,
                   concat>>

\* render: one iteration of the download loop; a failed download throws
DownloadAsset ==
    /\ pc = "render" /\ stage = "Downloading"
    /\ \E k \in PendingDownloads :
          LET localPath == LocalAssetPath(k, DownloadExt(assets[k]))
          IN /\ Start(Op("fetch", k))
             /\ \/ /\ files' = files \cup {localPath}
                   /\ assets' = [assets EXCEPT ![k] = WithField(assets[k], "_localPath", localPath)]
                   /\ GoesOn
                   /\ UNCHANGED stage
                \/ /\ RenderFails(k)
                   /\ UNCHANGED <<files, assets>>
    /\ UNCHANGED <<store, clipIdx, clipPaths, audioPath, mixOutcome>>
    /\ UNCHANGED <<script, tasks, result, config, edl, req, res, pexels, runJobCalls, clock, filters,
                   concat>>

\* render: the download loop is over, the clip loop starts at i = 0
FinishDownloads ==
    /\ pc = "render" /\ stage = "Downloading"
    /\ PendingDownloads = {}
    /\ stage' = "RenderingClips"
    /\ clipIdx' = 1
    /\ GoesOn
    /\ UNCHANGED <<assets, store, clipPaths, audioPath, files, mixOutcome>>
    /\ UNCHANGED idle

\* ------------------------------------------------------------------------
\* entrypoint.js generateKenBurnsFilter and the filter graph renderClip
\* chooses.  Zooms and pans are in hundredths, durations in tenths of a
\* second.  An expression of the filter string is the record of its
\* parts: base + diff * law(t / duration); the pan expressions are in units
\* of 1/200 pixel, so that startX * width / 2 is the integer startX * width.
\* ------------------------------------------------------------------------
FilterStartZoom == 100
FilterEndZoom == 120

\* mutant: the whole end zoom is taken for the zoom difference
ZoomDiffFromOne(startZoom, endZoom) == endZoom

\* const zoomDiff = endZoom - startZoom
ZoomDiff(startZoom, endZoom) == endZoom - startZoom

\* mutant: the pre-scale dimension is rounded down
ScaleDimensionFloor(dimension, maxZoom) == (dimension * maxZoom * 3) \div 200

\* Math.ceil(width * maxZoom * 1.5)
ScaleDimension(dimension, maxZoom) == (dimension * maxZoom * 3 + 199) \div 200

generateKenBurnsFilter(params, duration, outputSettings) ==
    LET param(f, default) == IF Has(params, f) THEN params[f] ELSE default
        startZoom == param("startZoom", FilterStartZoom)
        endZoom == param("endZoom", FilterEndZoom)
        startX == param("startX", 0)
        startY == param("startY", 0)
        endX == param("endX", 0)
        endY == param("endY", 0)
        easing == param("easing", "linear")
        fps == NumOptionOr(outputSettings, "fps", DefaultFps)
        width == NumOptionOr(outputSettings, "width", DefaultWidth)
        height == NumOptionOr(outputSettings, "height", DefaultHeight)
        zoomLaw == CASE easing = "ease-in-out" -> "cosine"
                     [] easing = "ease-in" -> "quadratic-in"
                     [] easing = "ease-out" -> "quadratic-out"
                     [] OTHER -> "linear"
        panLaw == IF easing = "ease-in-out" THEN "cosine" ELSE "linear"
        maxZoom == IF startZoom >= endZoom THEN startZoom ELSE endZoom
    IN [kind |-> "ken-burns",
        scaleWidth |-> ScaleDimension(width, maxZoom),
        scaleHeight |-> ScaleDimension(height, maxZoom),
        zoom |-> [base |-> startZoom, diff |-> ZoomDiff(startZoom, endZoom),
                  law |-> zoomLaw, duration |-> duration],
        panX |-> [base |-> startX * width, diff |-> (endX - startX) * width,
                  law |-> panLaw, duration |-> duration],
        panY |-> [base |-> startY * height, diff |-> (endY - startY) * height,
                  law |-> panLaw, duration |-> duration],
        totalFrames |-> (duration * fps + 9) \div 10,
        width |-> width, height |-> height, fps |-> fps]

\* the value of an expression at time t, as the fraction num / den; the
\* cosine law is evaluated where cos(PI * t / duration) is rational
Eval(expr, t) ==
    LET d == expr.duration
        twiceCos == CASE t = 0 -> 2
                      [] 3 * t = d -> 1
                      [] 2 * t = d -> 0
                      [] 3 * t = 2 * d -> -1
                      [] t = d -> -2
    IN CASE expr.law = "cosine" ->
                [num |-> expr.base * 4 + expr.diff * (2 - twiceCos), den |-> 4]
         [] expr.law = "quadratic-in" ->
                [num |-> expr.base * d * d + expr.diff * t * t, den |-> d * d]
         [] expr.law = "quadratic-out" ->
                [num |-> expr.base * d * d + expr.diff * (d * d - (d - t) * (d - t)),
                 den |-> d * d]
         [] OTHER ->
                [num |-> expr.base * d + expr.diff * t, den |-> d]

\* scale=W:H:force_original_aspect_ratio=decrease,pad=W:H:...,fps=F
ScalePadFilter(outputSettings) ==
    [kind |-> "scale-pad", width |-> outputSettings.width,
     height |-> outputSettings.height, fps |-> outputSettings.fps]

\* renderClip: the complexFilter of the command, by asset type
ClipFilter(clip, asset, outputSettings) ==
    LET kenBurns == IF Has(clip, "effects")
                    THEN { n \in DOMAIN clip.effects : clip.effects[n].type = "ken-burns" }
                    ELSE {}
    IN IF asset.type \in {"generated-image", "image"}
       THEN IF kenBurns # {}
            THEN generateKenBurnsFilter(
                     clip.effects[CHOOSE n \in kenBurns : \A m \in kenBurns : n <= m].params,
                     clip.duration, outputSettings)
            ELSE ScalePadFilter(outputSettings)
       ELSE IF asset.type \in {"pexels-video", "video"}
       THEN ScalePadFilter(outputSettings)
       ELSE [kind |-> "none"]

\* renderClip: the videoFilters array built from the clip's transitions
\* (fade=t=in:st=0:d=.. and fade=t=out:st=duration-d:d=..); the array is
\* filled and then not used: the command carries the complexFilter only
VideoFilters(clip, duration) ==
    LET Fades(side) ==
            /\ Has(clip, "transitions")
            /\ Has(clip.transitions, side)
            /\ clip.transitions[side].type \in {"fade", "dissolve"}
        \* clip.transitions.<side>.duration || 0.5
        FadeDuration(side) ==
            IF Has(clip.transitions[side], "duration") /\ clip.transitions[side].duration # 0
            THEN clip.transitions[side].duration
            ELSE 5
    IN (IF Fades("in")
        THEN <<[t |-> "in", st |-> 0, d |-> FadeDuration("in")]>>
        ELSE <<>>)
       \o (IF Fades("out")
           THEN <<[t |-> "out", st |-> duration - FadeDuration("out"),
                   d |-> FadeDuration("out")]>>
           ELSE <<>>)

\* !asset || !asset._localPath
ClipSkipped(clip) ==
    \/ clip.assetId \notin DOMAIN assets
    \/ ~Has(assets[clip.assetId], "_localPath")

\* mutant: a rendered clip's path is put at the head of the list
RenderClipStepPrepends ==
    /\ pc = "render" /\ stage = "RenderingClips"
    /\ clipIdx <= Len(FindTrack(edl, "video").clips)
    /\ LET clip == FindTrack(edl, "video").clips[clipIdx]
       IN IF ClipSkipped(clip)
          THEN /\ clipIdx' = clipIdx + 1
               /\ GoesOn
               /\ UNCHANGED <<stage, clipPaths, files>>
          ELSE \/ /\ files' = files \cup {ClipPath(clipIdx)}
                  /\ clipPaths' = <<ClipPath(clipIdx)>> \o clipPaths
                  /\ clipIdx' = clipIdx + 1
                  /\ GoesOn
                  /\ UNCHANGED stage
               \/ /\ RenderFails(clip.id)
                  /\ UNCHANGED <<clipIdx, clipPaths, files>>
    /\ UNCHANGED <<assets, store, audioPath, mixOutcome>>
    /\ LET clip == FindTrack(edl, "video").clips[clipIdx]
       IN IF ClipSkipped(clip)
          THEN UNCHANGED <<started, filters>>
          ELSE /\ Start(Op("renderClip", <<"clip", clipIdx>>))
               /\ filters' = Append(filters, ClipFilter(clip, assets[clip.assetId],
                                                        edl.metadata.outputSettings))
    /\ UNCHANGED <<script, tasks, result, config, edl, req, res, pexels, runJobCalls, clock, concat>>

\* render: one iteration of the clip loop: skip the clip, or await renderClip
RenderClipStep ==
    /\ pc = "render" /\ stage = "RenderingClips"
    /\ clipIdx <= Len(FindTrack(edl, "video").clips)
    /\ LET clip == FindTrack(edl, "video").clips[clipIdx]
       IN IF ClipSkipped(clip)
          THEN /\ clipIdx' = clipIdx + 1
               /\ GoesOn
               /\ UNCHANGED <<stage, clipPaths, files>>
          ELSE \/ /\ files' = files \cup {ClipPath(clipIdx)}
                  /\ clipPaths' = Append(clipPaths, ClipPath(clipIdx))
                  /\ clipIdx' = clipIdx + 1
                  /\ GoesOn
                  /\ UNCHANGED stage
               \/ /\ RenderFails(clip.id)
                  /\ UNCHANGED <<clipIdx, clipPaths, files>>
    /\ UNCHANGED <<assets, store, audioPath, mixOutcome>>
    /\ LET clip == FindTrack(edl, "video").clips[clipIdx]
       IN IF ClipSkipped(clip)
          THEN UNCHANGED <<started, filters>>
          ELSE /\ Start(Op("renderClip", <<"clip", clipIdx>>))
               /\ filters' = Append(filters, ClipFilter(clip, assets[clip.assetId],
                                                        edl.metadata.outputSettings))
    /\ UNCHANGED <<script, tasks, result, config, edl, req, res, pexels, runJobCalls, clock, concat>>

\* mutant: the clip loop's result is not checked for emptiness
FinishClipsNoCheck ==
    /\ pc = "render" /\ stage = "RenderingClips"
    /\ clipIdx > Len(FindTrack(edl, "video").clips)
    /\ stage' = "Concatenating"
    /\ GoesOn
    /\ UNCHANGED <<assets, store, clipIdx, clipPaths, audioPath, files, mixOutcome>>
    /\ UNCHANGED idle

\* render: after the clip loop, if (clipPaths.length === 0) throw new Error('No clips were rendered')
FinishClips ==
    /\ pc = "render" /\ stage = "RenderingClips"
    /\ clipIdx > Len(FindTrack(edl, "video").clips)
    /\ IF clipPaths = <<>>
       THEN RenderFails(<<"No clips were rendered", 0>>)
       ELSE stage' = "Concatenating" /\ GoesOn
    /\ UNCHANGED <<assets, store, clipIdx, clipPaths, audioPath, files, mixOutcome>>
    /\ UNCHANGED idle

\* mutant: only the presence of the audio track is tested
HasAudioTrack(e) == FindTrack(e, "audio") # NoTrack

\* if (audioTrack && audioTrack.clips.length > 0)
HasAudioClips(e) == Len(FindTrack(e, "audio").clips) > 0

\* concatenateClips: the output options of its command
ConcatOptions(outputSettings) ==
    [codec |-> IF Has(outputSettings, "codec") /\ outputSettings.codec = "h265"
               THEN "libx265" ELSE "libx264",
     preset |-> StrOptionOr(outputSettings, "preset", "medium"),
     crf |-> NumOptionOr(outputSettings, "crf", DefaultCrf)]

\* render: await concatenateClips(clipPaths, concatenatedPath, outputSettings)
Concatenate ==
    /\ pc = "render" /\ stage = "Concatenating"
    /\ \/ /\ files' = files \cup {ConcatenatedPath}
          /\ stage' = IF HasAudioClips(edl) THEN "MixingAudio" ELSE "Combining"
          /\ GoesOn
       \/ /\ RenderFails(<<"concatenate", 0>>)
          /\ UNCHANGED files
    /\ UNCHANGED <<assets, store, clipIdx, clipPaths, audioPath, mixOutcome>>
    /\ Start(Op("concatenate", <<"", 0>>))
    /\ concat' = WithField(ConcatOptions(edl.metadata.outputSettings), "segments", clipPaths)
    /\ UNCHANGED <<script, tasks, result, config, edl, req, res, pexels, runJobCalls, clock, filters>>

\* render: the audio assets the audio block still downloads
\* (asset && asset.source && !asset._localPath, then source.startsWith('gs://'))
LateDownloads(audioClips) ==
    { k \in { audioClips[n].assetId : n \in 1 .. Len(audioClips) } :
        /\ k \in DOMAIN assets
        /\ IsGcsSource(assets[k])
        /\ ~Has(assets[k], "_localPath") }

\* mixAudioTracks: the files added as inputs, one per clip whose asset resolves
MixInputs(audioClips) ==
    LET kept == SelectSeq(audioClips, LAMBDA c : c.assetId \in DOMAIN assets)
    IN [n \in 1 .. Len(kept) |-> LocalAssetPath(kept[n].assetId, ".mp3")]

\* mixAudioTracks: the clip indexes its delay stages read ([i]adelay...[ai])
MixDelayIndexes(audioClips) ==
    { n \in 1 .. Len(audioClips) : audioClips[n].assetId \in DOMAIN assets }

\* the transcoder can run the mix: every input file exists and every delay
\* stage reads an input that was added
MixRunnable(audioClips, present) ==
    /\ \A n \in 1 .. Len(MixInputs(audioClips)) : MixInputs(audioClips)[n] \in present
    /\ MixDelayIndexes(audioClips) = 1 .. Len(MixInputs(audioClips))

\* mutant: the mix is awaited outside the try block, so its failure is thrown
MixAudioUncaught ==
    /\ pc = "render" /\ stage = "MixingAudio"
    /\ LET audioClips == FindTrack(edl, "audio").clips
       IN \/ /\ stage' = "Combining"
             /\ GoesOn
             /\ IF Len(MixInputs(audioClips)) = 0
                THEN /\ mixOutcome' = "notRun"
                     /\ audioPath' = MixedAudioPath
                     /\ files' = files
                ELSE /\ MixRunnable(audioClips, files)
                     /\ mixOutcome' = "mixed"
                     /\ audioPath' = MixedAudioPath
                     /\ files' = files \cup {MixedAudioPath}
          \/ /\ Len(MixInputs(audioClips)) # 0
             /\ mixOutcome' = "failed"
             /\ RenderFails(<<"mix", 0>>)
             /\ UNCHANGED <<audioPath, files>>
    /\ UNCHANGED <<assets, store, clipIdx, clipPaths>>
    /\ IF Len(MixInputs(FindTrack(edl, "audio").clips)) # 0
          /\ LateDownloads(FindTrack(edl, "audio").clips) = {}
       THEN Start(Op("mix", <<"", 0>>))
       ELSE UNCHANGED started
    /\ UNCHANGED <<script, tasks, result, config, edl, req, res, pexels, runJobCalls, clock, filters,
                   concat>>

\* render: the audio block.  Audio assets without a local path are downloaded
\* (a failure throws); audioPath is set and mixAudioTracks awaited; its failure
\* is caught and audioPath reset to null.  mixAudioTracks returns null without
\* running the transcoder when no clip's asset resolves, leaving audioPath set.
MixAudio ==
    /\ pc = "render" /\ stage = "MixingAudio"
    /\ LET audioClips == FindTrack(edl, "audio").clips
           late == LateDownloads(audioClips)
           fetched == [k \in DOMAIN assets |->
                          IF k \in late
                          THEN WithField(assets[k], "_localPath", LocalAssetPath(k, ".mp3"))
                          ELSE assets[k]]
           present == files \cup { LocalAssetPath(k, ".mp3") : k \in late }
       IN \/ /\ late # {}
             /\ RenderFails(CHOOSE k \in late : TRUE)
             /\ UNCHANGED <<assets, files, audioPath, mixOutcome>>
          \/ /\ assets' = fetched
             /\ stage' = "Combining"
             /\ GoesOn
             /\ IF Len(MixInputs(audioClips)) = 0
                THEN /\ mixOutcome' = "notRun"
                     /\ audioPath' = MixedAudioPath
                     /\ files' = present
                ELSE \/ /\ MixRunnable(audioClips, present)
                        /\ mixOutcome' = "mixed"
                        /\ audioPath' = MixedAudioPath
                        /\ files' = present \cup {MixedAudioPath}
                     \/ /\ mixOutcome' = "failed"
                        /\ audioPath' = NoPath
                        /\ files' = present
    /\ UNCHANGED <<store, clipIdx, clipPaths>>
    /\ IF Len(MixInputs(FindTrack(edl, "audio").clips)) # 0
          /\ LateDownloads(FindTrack(edl, "audio").clips) = {}
       THEN Start(Op("mix", <<"", 0>>))
       ELSE UNCHANGED started
    /\ UNCHANGED <<script, tasks, result, config, edl, req, res, pexels, runJobCalls, clock, filters,
                   concat>>

\* the transcoder can run the combine: its audio input, if any, exists
CombineRunnable == audioPath = NoPath \/ audioPath \in files

\* render: await combineVideoAndAudio(concatenatedPath, audioPath, finalPath); return finalPath
Combine ==
    /\ pc = "render" /\ stage = "Combining"
    /\ \/ /\ CombineRunnable
          /\ files' = files \cup {FinalPath}
          /\ stage' = "Done"
          /\ pc' = "upload"
          /\ UNCHANGED <<exitCode, failure>>
       \/ /\ RenderFails(<<"combine", 0>>)
          /\ UNCHANGED files
    /\ UNCHANGED <<assets, store, clipIdx, clipPaths, audioPath, mixOutcome>>
    /\ Start(Op("combine", <<"", 0>>))
    /\ UNCHANGED <<script, tasks, result, config, edl, req, res, pexels, runJobCalls, clock, filters,
                   concat>>

\* mutant: the upload is not awaited inside the try block, its failure is lost
UploadFailureIgnored ==
    /\ pc = "upload"
    /\ \/ /\ store' = store \cup {UploadPath(config)}
          /\ Exit(0)
       \/ /\ Exit(0)
          /\ UNCHANGED store
    /\ UNCHANGED <<assets, stage, clipIdx, clipPaths, audioPath, files, failure, mixOutcome>>
    /\ UNCHANGED idle

\* main: await uploadToGCS(finalVideoPath, outputGcsPath); process.exit(0)
Upload ==
    /\ pc = "upload"
    /\ \/ /\ store' = store \cup {UploadPath(config)}
          /\ Exit(0)
       \/ /\ Exit(1)
          /\ UNCHANGED store
    /\ UNCHANGED <<assets, stage, clipIdx, clipPaths, audioPath, files, failure, mixOutcome>>
    /\ UNCHANGED idle

NextRender ==
    \/ CheckConfig
    \/ LoadEDL
    \/ DownloadAsset
    \/ FinishDownloads
    \/ RenderClipStep
    \/ FinishClips
    \/ Concatenate
    \/ MixAudio
    \/ Combine
    \/ Upload

SpecRender == InitRender /\ [][NextRender]_vars

\* ------------------------------------------------------------------------
\* One job from the fan-out to the upload of the final video: the
\* orchestration followed by the render worker it dispatched (the "job"
\* specification)
\* ------------------------------------------------------------------------
MaxJobScenes == 1

JobScripts == { s \in FanoutScripts : Len(s.scenes) <= MaxJobScenes }

InitJob ==
    /\ pc = "fanout"
    /\ script \in JobScripts
    /\ assets = EmptyObject
    /\ edl = NoEDL
    /\ tasks = <<>>
    /\ store = {}
    /\ result = NoResult
    /\ RenderIdle
    /\ RoutesIdle

\* the Cloud Run execution started by dispatchRenderJob: main() runs with the
\* EDL_PATH override of the dispatch
StartWorker ==
    /\ pc = "returned"
    /\ result.renderExecution = "dispatched"
    /\ pc' = "main"
    /\ config' = [edlPath |-> TRUE, jobId |-> TRUE]
    /\ UNCHANGED <<script, assets, edl, tasks, store, result>>
    /\ UNCHANGED <<stage, clipIdx, clipPaths, audioPath, files, exitCode, failure, mixOutcome,
                   filters, concat>>
    /\ UNCHANGED routeVars

NextJob ==
    \/ FanOut
    \/ TaskStep
    \/ AwaitAll
    \/ OrchBuildEDL
    \/ SaveEDL
    \/ Dispatch
    \/ StartWorker
    \/ NextRender

SpecJob == InitJob /\ [][NextJob]_vars

\* ------------------------------------------------------------------------
\* The render worker under every environment and on hand-authored documents
\* (the "worker" specification): JOB_ID and EDL_PATH each set or unset, a
\* document with the settings buildEDL writes for an output format, a
\* preset and CRF or a codec, and assets named as the builder names them or
\* with another source extension or type
\* ------------------------------------------------------------------------
MaxWorkerClips == 1

OutputFormats == {"mp4", "webm", "mov"}

\* the options buildEDL is given for the documents of the worker
WorkerOptions ==
    { [format |-> f] : f \in OutputFormats }
        \cup { [preset |-> "slow", crf |-> 18], [codec |-> "h265"] }

\* how a hand-authored document names its assets: as the builder does
\* ("built"), narration stored as .wav objects ("wav"), or footage under a
\* type of its own ("uploaded")
WorkerAssetStyles == {"built", "wav", "uploaded"}

WorkerAssets(assetMap, style) ==
    [k \in DOMAIN assetMap |->
        IF style = "wav" /\ assetMap[k].type = "generated-audio"
        THEN [assetMap[k] EXCEPT !.source = GcsAssetPath(k, ".wav")]
        ELSE IF style = "uploaded" /\ assetMap[k].type = "pexels-video"
        THEN [assetMap[k] EXCEPT !.type = "uploaded-video"]
        ELSE assetMap[k]]

\* the documents: the output and render settings are the ones buildEDL
\* writes for the options
WorkerEDLs ==
    { LET built == buildEDL([title |-> "t", scenes |-> <<>>], EmptyObject, o, 0)
      IN [e EXCEPT !.metadata.outputSettings = built.metadata.outputSettings,
                   !.renderSettings = built.renderSettings,
                   !.assets = WorkerAssets(e.assets, style)] :
        e \in { d \in RenderEDLs :
                  /\ Cardinality(DOMAIN d.assets) <= 2 * MaxWorkerClips
                  /\ \A t \in DOMAIN d.timeline.tracks :
                         Len(d.timeline.tracks[t].clips) <= MaxWorkerClips },
        o \in WorkerOptions,
        style \in WorkerAssetStyles }

InitWorker ==
    /\ pc = "main"
    /\ script = [title |-> "t", scenes |-> <<>>]
    /\ edl \in WorkerEDLs
    /\ assets = EmptyObject
    /\ tasks = <<>>
    /\ store = {EdlStorePath}
    /\ result = NoResult
    /\ config \in [edlPath : BOOLEAN, jobId : BOOLEAN]
    /\ stage = "NotStarted"
    /\ clipIdx = 0
    /\ clipPaths = <<>>
    /\ audioPath = NoPath
    /\ files = {}
    /\ exitCode = NotExited
    /\ failure = NoFailure
    /\ mixOutcome = "none"
    /\ filters = <<>>
    /\ concat = EmptyObject
    /\ RoutesIdle

SpecWorker == InitWorker /\ [][NextRender]_vars

\* ------------------------------------------------------------------------
\* controller.js: the routes POST /generate, GET /jobs/:jobId, POST /render.
\* A request is received (pc = "recv") and answered once (pc = "responded");
\* /generate runs orchestrateVideoGeneration in between.
\* ------------------------------------------------------------------------
MaxJobs == 1
JobIds == 0 .. MaxJobs

\* jobs/${jobId}/edl.json
JobEdlPath(jobId) == [scheme |-> "gs", name |-> <<"edl", jobId>>, ext |-> ".json"]

\* jobs/${jobId}/output/final.mp4
JobOutputPath(jobId) == [scheme |-> "gs", name |-> <<"final", jobId>>, ext |-> ".mp4"]

\* res.status(status).json(body)
Response(status, body) == [status |-> status, body |-> body]

GenerateRequests ==
    { [route |-> "generate", body |-> b] :
        b \in {EmptyObject, [topic |-> ""], [topic |-> "topic"]} }

\* the EDLs a client may post to /render
PostedEDLs ==
    { buildEDL([title |-> "t", scenes |-> <<>>], EmptyObject, EmptyObject, 0),
      ShapeEDL(<< [v |-> "image", a |-> "audio"] >>, TRUE, TRUE) }

RenderRequests ==
    { [route |-> "render", body |-> b] :
        b \in {EmptyObject, [edl |-> [version |-> "1.0.0"]]}
              \cup { [edl |-> e] : e \in PostedEDLs } }

JobsRequests == { [route |-> "jobs", jobId |-> j] : j \in JobIds }

\* the artifacts earlier jobs may have left in the bucket
StoredArtifacts == { JobEdlPath(j) : j \in JobIds } \cup { JobOutputPath(j) : j \in JobIds }

InitRoutes ==
    /\ pc = "recv"
    /\ req \in GenerateRequests \cup RenderRequests \cup JobsRequests
    /\ store \in (IF req.route = "jobs" THEN SUBSET StoredArtifacts ELSE {{}})
    /\ res = NoResponse
    /\ pexels = NoAnswer
    /\ runJobCalls = <<>>
    /\ clock = 0
    /\ started = EmptyObject
    /\ script = [title |-> "t", scenes |-> <<>>]
    /\ assets = EmptyObject
    /\ edl = NoEDL
    /\ tasks = <<>>
    /\ result = NoResult
    /\ RenderIdle

\* if (!topic)
TopicMissing(body) == IF Has(body, "topic") THEN body.topic = "" ELSE TRUE

\* if (!edl || !edl.timeline)
EdlInvalid(body) == IF Has(body, "edl") THEN ~Has(body.edl, "timeline") ELSE TRUE

\* mutant: /generate starts the orchestration without looking at the topic
GenerateRouteUnchecked ==
    /\ pc = "recv"
    /\ req.route = "generate"
    /\ pc' = "script"
    /\ UNCHANGED <<script, assets, edl, tasks, store, result>>
    /\ UNCHANGED renderVars
    /\ UNCHANGED routeVars

\* app.post('/generate'): validation, then the call of orchestrateVideoGeneration
GenerateRoute ==
    /\ pc = "recv"
    /\ req.route = "generate"
    /\ IF TopicMissing(req.body)
       THEN /\ res' = Response(400, [error |-> "Topic is required"])
            /\ pc' = "responded"
       ELSE /\ pc' = "script"
            /\ UNCHANGED res
    /\ UNCHANGED <<script, assets, edl, tasks, store, result, req, pexels, runJobCalls, clock, started>>
    /\ UNCHANGED renderVars

\* app.post('/generate'): res.status(202).json(result), or the catch block
GenerateRespond ==
    /\ req.route = "generate"
    /\ pc \in {"returned", "threw"}
    /\ res' = IF pc = "returned"
              THEN Response(202, result)
              ELSE Response(500, [error |-> "Failed to generate video"])
    /\ pc' = "responded"
    /\ UNCHANGED <<script, assets, edl, tasks, store, result, req, pexels, runJobCalls, clock, started>>
    /\ UNCHANGED renderVars

\* app.post('/render'): validation, EDL save, dispatch, response
RenderRoute ==
    /\ pc = "recv"
    /\ req.route = "render"
    /\ \/ /\ EdlInvalid(req.body)
          /\ res' = Response(400, [error |-> "Valid EDL is required"])
          /\ UNCHANGED <<store, runJobCalls>>
       \/ /\ ~EdlInvalid(req.body)
          /\ res' = Response(500, [error |-> "save failed"])
          /\ UNCHANGED <<store, runJobCalls>>
       \/ /\ ~EdlInvalid(req.body)
          /\ store' = store \cup {JobEdlPath(JobId)}
          /\ runJobCalls' = Append(runJobCalls, RunJobCall(JobId, JobEdlPath(JobId), FALSE))
          /\ res' = Response(500, [error |-> "dispatch failed"])
       \/ /\ ~EdlInvalid(req.body)
          /\ store' = store \cup {JobEdlPath(JobId)}
          /\ runJobCalls' = Append(runJobCalls, RunJobCall(JobId, JobEdlPath(JobId), TRUE))
          /\ res' = Response(202, [jobId |-> JobId, status |-> "rendering",
                                   edlPath |-> JobEdlPath(JobId),
                                   renderExecution |-> "dispatched"])
    /\ pc' = "responded"
    /\ UNCHANGED <<script, assets, edl, tasks, result, req, pexels, clock, started>>
    /\ UNCHANGED renderVars

\* mutant: the EDL is looked for before the output
JobStatusEdlFirst ==
    /\ pc = "recv"
    /\ req.route = "jobs"
    /\ \/ res' = Response(500, [error |-> "storage error"])
       \/ /\ JobEdlPath(req.jobId) \in store
          /\ res' = Response(200, [jobId |-> req.jobId, status |-> "rendering",
                                   edlPath |-> JobEdlPath(req.jobId)])
       \/ /\ JobEdlPath(req.jobId) \notin store
          /\ JobOutputPath(req.jobId) \in store
          /\ res' = Response(200, [jobId |-> req.jobId, status |-> "completed",
                                   outputPath |-> JobOutputPath(req.jobId)])
       \/ /\ JobOutputPath(req.jobId) \notin store
          /\ JobEdlPath(req.jobId) \notin store
          /\ res' = Response(404, [error |-> "Job not found"])
    /\ pc' = "responded"
    /\ UNCHANGED <<script, assets, edl, tasks, store, result, req, pexels, runJobCalls, clock, started>>
    /\ UNCHANGED renderVars

\* app.get('/jobs/:jobId'): output exists, else EDL exists, else 404; a storage
\* call that rejects ends in the catch block
JobStatus ==
    /\ pc = "recv"
    /\ req.route = "jobs"
    /\ \/ res' = Response(500, [error |-> "storage error"])
       \/ /\ JobOutputPath(req.jobId) \in store
          /\ res' = Response(200, [jobId |-> req.jobId, status |-> "completed",
                                   outputPath |-> JobOutputPath(req.jobId)])
       \/ /\ JobOutputPath(req.jobId) \notin store
          /\ JobEdlPath(req.jobId) \in store
          /\ res' = Response(200, [jobId |-> req.jobId, status |-> "rendering",
                                   edlPath |-> JobEdlPath(req.jobId)])
       \/ /\ JobOutputPath(req.jobId) \notin store
          /\ JobEdlPath(req.jobId) \notin store
          /\ res' = Response(404, [error |-> "Job not found"])
    /\ pc' = "responded"
    /\ UNCHANGED <<script, assets, edl, tasks, store, result, req, pexels, runJobCalls, clock, started>>
    /\ UNCHANGED renderVars

NextRoutes ==
    \/ GenerateRoute
    \/ GenerateRespond
    \/ RenderRoute
    \/ JobStatus
    \/ NextOrch

SpecRoutes == InitRoutes /\ [][NextRoutes]_vars

\* ------------------------------------------------------------------------
\* The "effects" specification: buildEDL on the effect inputs, called once,
\* or twice on the same inputs at two readings of the clock
\* ------------------------------------------------------------------------
\* how far the wall clock advances between the two calls
MaxClock == 2

\* an earlier call on the same inputs: its document is kept in res
FirstCall ==
    /\ pc = "build"
    /\ res = NoResponse
    /\ res' = Returned(buildEDL(script, assets, EmptyObject, clock))
    /\ UNCHANGED <<pc, script, assets, edl, req, pexels, runJobCalls, clock, started>>
    /\ UNCHANGED orchVars
    /\ UNCHANGED renderVars

\* time passes between the two calls
Tick ==
    /\ pc = "build"
    /\ res # NoResponse
    /\ clock < MaxClock
    /\ clock' = clock + 1
    /\ UNCHANGED <<pc, script, assets, edl, req, res, pexels, runJobCalls, started>>
    /\ UNCHANGED orchVars
    /\ UNCHANGED renderVars

\* renderClip's filter graph for every clip of the built document
RenderFilters ==
    /\ pc = "built"
    /\ filters' = [n \in DOMAIN edl.timeline.tracks[1].clips |->
                       ClipFilter(edl.timeline.tracks[1].clips[n],
                                  edl.assets[edl.timeline.tracks[1].clips[n].assetId],
                                  edl.metadata.outputSettings)]
    /\ pc' = "filtered"
    /\ UNCHANGED <<script, assets, edl>>
    /\ UNCHANGED orchVars
    /\ UNCHANGED <<config, stage, clipIdx, clipPaths, audioPath, files, exitCode, failure,
                   mixOutcome, concat>>
    /\ UNCHANGED routeVars

NextEffects == FirstCall \/ Tick \/ Build \/ RenderFilters

SpecEffects == InitEffects /\ [][NextEffects]_vars

\* ------------------------------------------------------------------------
\* generateKenBurnsFilter on its own (the "filter" specification)
\* ------------------------------------------------------------------------
MaxFilterDur == 3

\* the calls: params with each field present or missing, every easing value
\* and one that is not recognized
FilterCalls ==
    LET zoomValues == {100, 115, 133}
        merge(a, b) == [f \in DOMAIN a \cup DOMAIN b |-> IF f \in DOMAIN b THEN b[f] ELSE a[f]]
        zooms == {EmptyObject}
                 \cup { [startZoom |-> z] : z \in zoomValues }
                 \cup { [endZoom |-> z] : z \in zoomValues }
                 \cup { [startZoom |-> a, endZoom |-> b] : a \in zoomValues, b \in zoomValues }
        pans == { EmptyObject,
                  [startX |-> 10, endY |-> 20],
                  [startX |-> -100, startY |-> 50, endX |-> 100, endY |-> -50] }
        easings == {EmptyObject}
                   \cup { [easing |-> e] :
                            e \in {"linear", "ease-in", "ease-out", "ease-in-out", "bounce"} }
        settings == { EmptyObject,
                      [width |-> DefaultWidth, height |-> DefaultHeight, fps |-> DefaultFps],
                      [width |-> 1280, height |-> 720, fps |-> 25] }
    IN { [params |-> merge(merge(z, p), e), duration |-> d, outputSettings |-> os] :
           z \in zooms, p \in pans, e \in easings, d \in 1 .. MaxFilterDur, os \in settings }

InitFilter ==
    /\ pc = "filter"
    /\ script = [title |-> "t", scenes |-> <<>>]
    /\ assets = EmptyObject
    /\ edl = NoEDL
    /\ tasks = <<>>
    /\ store = {}
    /\ result = NoResult
    /\ RenderIdle
    /\ req \in FilterCalls
    /\ res = NoResponse
    /\ pexels = NoAnswer
    /\ runJobCalls = <<>>
    /\ clock = 0
    /\ started = EmptyObject

\* one call of generateKenBurnsFilter
GenerateFilter ==
    /\ pc = "filter"
    /\ res' = Returned(generateKenBurnsFilter(req.params, req.duration, req.outputSettings))
    /\ pc' = "filtered"
    /\ UNCHANGED <<script, assets, edl, req, pexels, runJobCalls, clock, started>>
    /\ UNCHANGED orchVars
    /\ UNCHANGED renderVars

SpecFilter == InitFilter /\ [][GenerateFilter]_vars

\* ------------------------------------------------------------------------
\* Claims about orchestrateVideoGeneration (checked under SpecOrch)
\* ------------------------------------------------------------------------
OrchCompleted == pc \in {"returned", "threw"}

\* C1: the failure of a single asset operation never makes the orchestration
\* fail: while it waits for the fan-out, with or without a rejected slot, the
\* orchestration does not throw; it stays waiting or goes on to build the EDL.
C1_SlotFailureNeverFails ==
    [][pc = "await" => pc' \in {"await", "buildEdl"}]_vars

\* C2: orchestrateVideoGeneration completes (returns or throws) only after
\* every asset operation it issued has settled.
C2_CompletesAfterAllSettled ==
    OrchCompleted => \A t \in DOMAIN tasks : Settled(tasks[t])

\* ------------------------------------------------------------------------
\* Claims about the render worker (checked under SpecRender)
\* ------------------------------------------------------------------------
\* the asset ids the clips of the document's video track refer to
VideoClipAssetIds ==
    UNION { { edl.timeline.tracks[n].clips[m].assetId :
                m \in 1 .. Len(edl.timeline.tracks[n].clips) } :
            n \in { t \in 1 .. Len(edl.timeline.tracks) :
                      edl.timeline.tracks[t].type = "video" } }

\* C3: when the download of an asset referenced by a video clip fails, the clip
\* is skipped and the other clips are still rendered: that download failure
\* alone never puts the job into Failed.
C3_DownloadFailureSkipsClip ==
    ~(/\ stage = "Failed"
      /\ failure.at = "Downloading"
      /\ failure.what \in VideoClipAssetIds)

\* C4: a render job in which no video clip is rendered ends in Failed: the
\* concatenation, the audio mix and the combine never run, no final artifact is
\* produced or uploaded, and the worker exits with code 1.
C4_NoClipsIsFatal ==
    clipPaths = <<>> =>
        /\ stage \notin {"Concatenating", "MixingAudio", "Combining", "Done"}
        /\ mixOutcome = "none"
        /\ files \cap {ConcatenatedPath, MixedAudioPath, FinalPath} = {}
        /\ OutputStorePath \notin store
        /\ (pc = "exited" => exitCode = 1)
        /\ (pc = "exited" /\ stage # "NotStarted" => stage = "Failed")

\* C4 witness: every clip of a non-empty video track was skipped and the worker
\* exited on 'No clips were rendered'.
C4_Witness ==
    /\ pc = "exited"
    /\ exitCode = 1
    /\ stage = "Failed"
    /\ failure = [at |-> "RenderingClips", what |-> <<"No clips were rendered", 0>>]
    /\ VideoClipAssetIds # {}

\* C5: if at least one clip was rendered and the audio mix fails, the failure
\* is caught: the combine step is reached with no audio input, the job fails
\* only if the combine step itself fails, and a job that is Done has produced
\* the final artifact without a mixed audio file.
C5_MixFailureTolerated ==
    mixOutcome = "failed" =>
        /\ clipPaths # <<>>
        /\ stage \in {"Combining", "Done", "Failed"}
        /\ audioPath = NoPath
        /\ MixedAudioPath \notin files
        /\ (stage = "Combining" => CombineRunnable)
        /\ (stage = "Failed" => failure.at = "Combining")
        /\ (stage = "Done" => FinalPath \in files)

\* C5 witness: the mix failed and the job is Done and uploaded.
C5_Witness ==
    /\ mixOutcome = "failed"
    /\ stage = "Done"
    /\ exitCode = 0
    /\ OutputStorePath \in store

\* the audio track is absent or has no clips
NoNarration ==
    \A n \in 1 .. Len(edl.timeline.tracks) :
        edl.timeline.tracks[n].type = "audio" => edl.timeline.tracks[n].clips = <<>>

StageOrder ==
    <<"NotStarted", "Downloading", "RenderingClips", "Concatenating", "MixingAudio",
      "Combining", "Done">>

StageRank(st) == CHOOSE n \in 1 .. Len(StageOrder) : StageOrder[n] = st

\* C6: the stages run strictly in the order Downloading, RenderingClips,
\* Concatenating, MixingAudio, Combining, Done, each starting on the complete
\* output of the one before; MixingAudio is skipped exactly when the audio
\* track is absent or has no clips; Failed and Done are final.
C6_StageOrder ==
    [][stage' # stage =>
          /\ stage \notin {"Failed", "Done"}
          /\ \/ stage' = "Failed"
             \/ /\ StageRank(stage') = StageRank(stage) + 1
                /\ stage' # "MixingAudio" \/ ~NoNarration
             \/ /\ stage = "Concatenating" /\ stage' = "Combining"
                /\ NoNarration
          /\ (stage' = "RenderingClips" =>
                \A k \in DOMAIN assets :
                    (assets[k].source.scheme = "gs") => "_localPath" \in DOMAIN assets[k])
          /\ (stage' = "Concatenating" =>
                clipPaths # <<>> /\ \A n \in 1 .. Len(clipPaths) : clipPaths[n] \in files)
          /\ (stage' \in {"MixingAudio", "Combining"} /\ stage = "Concatenating" =>
                ConcatenatedPath \in files')
          /\ (stage' = "Done" => FinalPath \in files' /\ ConcatenatedPath \in files)
    ]_vars

\* C6 witness: a job that went through every stage, audio mix included.
C6_Witness ==
    /\ stage = "Done"
    /\ mixOutcome = "mixed"
    /\ Len(clipPaths) >= 2

\* ------------------------------------------------------------------------
\* Claims about buildEDL (checked under SpecEDL)
\* ------------------------------------------------------------------------
VideoClips(e) == e.timeline.tracks[1].clips
AudioClips(e) == e.timeline.tracks[2].clips

\* the scene lacks its visual_{id} or its audio_{id} entry in the asset map
MissingAsset(scene, assetMap) ==
    ~(<<"visual", scene.id>> \in DOMAIN assetMap /\ <<"audio", scene.id>> \in DOMAIN assetMap)

RECURSIVE SumSeq(_)
SumSeq(s) == IF s = <<>> THEN 0 ELSE s[1] + SumSeq(Tail(s))

\* C7: in every EDL returned by buildEDL the video clip at index 0 has no in
\* transition and every video clip at a later index has transitions.in equal
\* to {type: dissolve, duration: 0.5}, whatever the clip durations are.
C7_TransitionPlacement ==
    pc = "built" =>
        \A i \in 1 .. Len(VideoClips(edl)) :
            LET clip == VideoClips(edl)[i]
            IN IF i = 1
               THEN ~Has(clip, "transitions")
               ELSE /\ Has(clip, "transitions")
                    /\ clip.transitions = [in |-> [type |-> "dissolve",
                                                   duration |-> DissolveDuration]]

\* C8: a scene whose visual or audio asset is missing from the asset map yields
\* no clip on either track, and the timeline (every clip, every startTime, the
\* duration) is the one buildEDL returns for the script without such scenes.
C8_MissingSceneDropped ==
    pc = "built" =>
        LET present(scene) == ~MissingAsset(scene, assets)
            kept == [script EXCEPT !.scenes = SelectSeq(script.scenes, present)]
        IN /\ \A i \in 1 .. Len(script.scenes) :
                  MissingAsset(script.scenes[i], assets) =>
                      /\ \A j \in 1 .. Len(VideoClips(edl)) :
                             VideoClips(edl)[j].id # <<"clip", script.scenes[i].id>>
                      /\ \A j \in 1 .. Len(AudioClips(edl)) :
                             AudioClips(edl)[j].id # <<"audio_clip", script.scenes[i].id>>
           /\ Len(VideoClips(edl)) = Len(kept.scenes)
           /\ Len(AudioClips(edl)) = Len(kept.scenes)
           /\ edl.timeline = buildEDL(kept, assets, EmptyObject, 0).timeline

\* C8 witness: a dropped scene with a positive declared duration stands before
\* a scene that was built into a clip.
C8_Witness ==
    /\ pc = "built"
    /\ Len(script.scenes) >= 2
    /\ MissingAsset(script.scenes[1], assets)
    /\ script.scenes[1].duration > 0
    /\ Len(VideoClips(edl)) >= 1
    /\ VideoClips(edl)[1].duration > 0

\* C9: for a script of k scenes whose visual and audio assets are all present,
\* buildEDL returns k video clips and k audio clips in script order and
\* timeline.duration is the sum over the scenes of the audio asset's duration
\* if it has one, else the scene's declared duration.
C9_FullyResolvedSum ==
    (pc = "built" /\ \A i \in 1 .. Len(script.scenes) : ~MissingAsset(script.scenes[i], assets)) =>
        LET k == Len(script.scenes)
            dur(i) == LET a == assets[<<"audio", script.scenes[i].id>>]
                      IN IF "duration" \in DOMAIN a THEN a.duration
                         ELSE script.scenes[i].duration
        IN /\ Len(VideoClips(edl)) = k
           /\ Len(AudioClips(edl)) = k
           /\ \A i \in 1 .. k :
                  /\ VideoClips(edl)[i].id = <<"clip", script.scenes[i].id>>
                  /\ AudioClips(edl)[i].id = <<"audio_clip", script.scenes[i].id>>
           /\ edl.timeline.duration = SumSeq([i \in 1 .. k |-> dur(i)])

Contiguous(clips) ==
    /\ Len(clips) >= 1 => clips[1].startTime = 0
    /\ \A i \in 1 .. Len(clips) - 1 :
          /\ clips[i + 1].startTime = clips[i].startTime + clips[i].duration
          /\ clips[i + 1].startTime >= clips[i].startTime

\* C10: in every EDL returned by buildEDL every clip's assetId is a key of
\* edl.assets; on each track the first clip starts at 0 and each later clip
\* starts where the previous one ends; and timeline.duration is the end of the
\* last video clip (0 for an empty timeline).
C10_ContiguousTimeline ==
    pc = "built" =>
        LET v == VideoClips(edl)
            a == AudioClips(edl)
        IN /\ \A i \in 1 .. Len(v) : v[i].assetId \in DOMAIN edl.assets
           /\ \A i \in 1 .. Len(a) : a[i].assetId \in DOMAIN edl.assets
           /\ Contiguous(v)
           /\ Contiguous(a)
           /\ edl.timeline.duration =
                  IF Len(v) = 0 THEN 0 ELSE v[Len(v)].startTime + v[Len(v)].duration

\* C10 witness: a built timeline of at least two clips whose second clip starts
\* later than 0, with the audio asset's duration differing from the scene's.
C10_Witness ==
    /\ pc = "built"
    /\ Len(VideoClips(edl)) >= 2
    /\ VideoClips(edl)[2].startTime > 0
    /\ VideoClips(edl)[1].duration # script.scenes[1].duration

\* ------------------------------------------------------------------------
\* Claims about the effects and the duration of a built clip
\* ------------------------------------------------------------------------
KenBurnsCount(clip) ==
    Cardinality({ j \in 1 .. Len(clip.effects) : clip.effects[j].type = "ken-burns" })

\* the scene a clip was built from (the clip's assetId ends in the scene id)
ClipScene(clip) ==
    script.scenes[CHOOSE i \in 1 .. Len(script.scenes) : script.scenes[i].id = clip.assetId[2]]

DeclaresKenBurns(scene) ==
    "effects" \in DOMAIN scene /\ "kenBurns" \in DOMAIN scene.effects

\* C11: a video clip carries a ken-burns effect if and only if its resolved
\* visual asset has type generated-image or image; an image-kind clip carries
\* exactly one, and a video-kind clip carries none even when its scene
\* declares effects.kenBurns.
C11_KenBurnsIffImage ==
    pc = "built" =>
        \A k \in 1 .. Len(VideoClips(edl)) :
            LET clip == VideoClips(edl)[k]
                asset == edl.assets[clip.assetId]
            IN IF asset.type \in {"generated-image", "image"}
               THEN KenBurnsCount(clip) = 1 /\ Len(clip.effects) = 1
               ELSE KenBurnsCount(clip) = 0

\* C11 witness: one EDL holds a footage clip whose scene declares
\* effects.kenBurns and a clip on an asset of type image.
C11_Witness ==
    /\ pc = "built"
    /\ \E k \in 1 .. Len(VideoClips(edl)) :
           /\ edl.assets[VideoClips(edl)[k].assetId].type = "pexels-video"
           /\ DeclaresKenBurns(ClipScene(VideoClips(edl)[k]))
    /\ \E k \in 1 .. Len(VideoClips(edl)) :
           /\ edl.assets[VideoClips(edl)[k].assetId].type = "image"
           /\ KenBurnsCount(VideoClips(edl)[k]) = 1

\* C12: every clip's duration, on both tracks, is the audio asset's duration
\* whenever the audio asset carries one (0 included), and the scene's declared
\* duration only when it carries none.
C12_AudioDurationWins ==
    pc = "built" =>
        \A k \in 1 .. Len(VideoClips(edl)) :
            LET scene == ClipScene(VideoClips(edl)[k])
                audio == assets[<<"audio", scene.id>>]
                expected == IF "duration" \in DOMAIN audio THEN audio.duration
                            ELSE scene.duration
            IN /\ VideoClips(edl)[k].duration = expected
               /\ AudioClips(edl)[k].duration = expected

\* ------------------------------------------------------------------------
\* Claims about the asset fan-out (checked under SpecOrch)
\* ------------------------------------------------------------------------
\* the image task t has left image generation for the footage fallback
FellBack(t) == tasks[t].kind = "image" /\ "query" \in DOMAIN tasks[t]

TaskScene(t) ==
    script.scenes[CHOOSE i \in 1 .. Len(script.scenes) : script.scenes[i].id = tasks[t].scene]

\* C13: for an image scene with an imagePrompt whose image generation failed,
\* the fallback searches for scene.searchQuery, else visualDescription, with
\* minDuration = scene.duration; the asset map never holds a generated-image
\* under visual_{sceneId}; and once search and download succeeded it holds
\* exactly one asset for the scene's visual slot, of type pexels-video.
C13_FallbackYieldsFootage ==
    \A t \in DOMAIN tasks :
        FellBack(t) =>
            LET scene == TaskScene(t)
                key == <<"visual", scene.id>>
            IN /\ scene.visualType = "image" /\ "imagePrompt" \in DOMAIN scene
               /\ tasks[t].query = (IF "searchQuery" \in DOMAIN scene THEN scene.searchQuery
                                    ELSE scene.visualDescription)
               /\ tasks[t].minDuration = scene.duration
               /\ key \in DOMAIN assets => assets[key].type # "generated-image"
               /\ tasks[t].st = "fulfilled" =>
                      /\ Cardinality({ k \in DOMAIN assets : k[1] = "visual" /\ k[2] = scene.id }) = 1
                      /\ assets[key].type = "pexels-video"
                      /\ assets[key].searchQuery = tasks[t].query
               /\ (tasks[t].st = "fulfilled" /\ pc \in {"saveEdl", "dispatch", "returned"}) =>
                      edl.assets[key].type = "pexels-video"

\* C13 witness: the orchestration returned for a script whose image scene has
\* no searchQuery, fell back to footage and got it.
C13_Witness ==
    /\ pc = "returned"
    /\ \E t \in DOMAIN tasks :
           /\ FellBack(t)
           /\ tasks[t].st = "fulfilled"
           /\ "searchQuery" \notin DOMAIN TaskScene(t)
           /\ assets[tasks[t].key].type = "pexels-video"

\* the asset a fulfilled task has recorded, from the task's own outcome
RecordedType(t) ==
    IF tasks[t].kind = "speech" THEN "generated-audio"
    ELSE IF tasks[t].kind = "video" \/ FellBack(t) THEN "pexels-video"
    ELSE "generated-image"

\* C14: with pairwise distinct scene ids no two tasks have the same asset key,
\* a step of a task changes at most the entry under that task's key, and the
\* asset map is determined by the outcome of each task alone (the keys are
\* those of the fulfilled tasks, each holding what its task recorded),
\* whatever the order in which the tasks completed.
C14_DistinctKeys ==
    /\ [](\A t, u \in DOMAIN tasks : tasks[t].key = tasks[u].key => t = u)
    /\ [](DOMAIN assets = { tasks[t].key : t \in { u \in DOMAIN tasks : tasks[u].st = "fulfilled" } })
    /\ [](\A t \in DOMAIN tasks :
             tasks[t].st = "fulfilled" =>
                 /\ assets[tasks[t].key].type = RecordedType(t)
                 /\ assets[tasks[t].key].source.name = tasks[t].key)
    /\ [][\A k \in DOMAIN assets' :
             (k \notin DOMAIN assets \/ assets'[k] # assets[k]) =>
                 /\ Cardinality({ t \in DOMAIN tasks : tasks'[t] # tasks[t] }) = 1
                 /\ \A t \in DOMAIN tasks : tasks'[t] # tasks[t] => tasks[t].key = k
                 /\ Cardinality(DOMAIN assets') = Cardinality(DOMAIN assets) + 1]_vars

\* C14 witness: two scenes, four tasks, all fulfilled, and the job returned.
C14_Witness ==
    /\ pc = "returned"
    /\ Len(tasks) >= 4
    /\ Cardinality(DOMAIN assets) = Len(tasks)

\* ------------------------------------------------------------------------
\* Claims about searchPexelsVideo (checked under SpecSearch)
\* ------------------------------------------------------------------------
\* the least element of a non-empty set of indexes
Least(S) == CHOOSE j \in S : \A h \in S : j <= h

DispatchFailed == runJobCalls # <<>> /\ ~runJobCalls[Len(runJobCalls)].ok

\* C16: the dispatch step of orchestrateVideoGeneration never throws and never
\* touches the object store: it returns a result with the job id and the
\* edlPath of the persisted EDL, and when dispatchRenderJob failed the result's
\* renderExecution is null.
C16_DispatchFailureDegrades ==
    [][pc = "dispatch" /\ pc' # "dispatch" =>
          /\ pc' = "returned"
          /\ store' = store
          /\ EdlStorePath \in store'
          /\ result'.jobId = JobId
          /\ result'.edlPath = EdlStorePath
          /\ result'.status = "processing"
          /\ (DispatchFailed' <=> result'.renderExecution = "null")]_vars

\* C16 witness: the orchestration returned after a failed dispatch, the EDL
\* still in the store.
C16_Witness ==
    /\ pc = "returned"
    /\ DispatchFailed
    /\ result.renderExecution = "null"
    /\ EdlStorePath \in store

\* ------------------------------------------------------------------------
\* Claims about the routes (checked under SpecRoutes)
\* ------------------------------------------------------------------------
\* C17: once a request was answered after its EDL was persisted and the
\* dispatch of its render failed, the response carries the job id and the
\* location of the EDL, on /generate and on /render alike.
C17_CallerToldOnDispatchFailure ==
    (pc = "responded" /\ DispatchFailed) =>
        LET call == runJobCalls[Len(runJobCalls)]
        IN call.edlPath \in store =>
               /\ "jobId" \in DOMAIN res.body
               /\ "edlPath" \in DOMAIN res.body
               /\ res.body.jobId = call.jobId
               /\ res.body.edlPath = call.edlPath

FailsValidation ==
    IF req.route = "generate"
    THEN IF "topic" \in DOMAIN req.body THEN req.body.topic = "" ELSE TRUE
    ELSE IF req.route = "render"
    THEN IF "edl" \in DOMAIN req.body THEN "timeline" \notin DOMAIN req.body.edl ELSE TRUE
    ELSE FALSE

\* C19: a request that fails validation is answered 400 in the first step of
\* its handler: no script is generated, no asset operation is issued, nothing
\* is written to the object store and dispatchRenderJob is never called.
C19_ValidationBeforeWork ==
    (FailsValidation /\ pc # "recv") =>
        /\ pc = "responded"
        /\ res.status = 400
        /\ script.scenes = <<>>
        /\ tasks = <<>>
        /\ assets = EmptyObject
        /\ edl = NoEDL
        /\ store = {}
        /\ runJobCalls = <<>>

\* C19 witness: /render was given an edl without a timeline and answered 400.
C19_Witness ==
    /\ pc = "responded"
    /\ req.route = "render"
    /\ "edl" \in DOMAIN req.body
    /\ res.status = 400

\* ------------------------------------------------------------------------
\* Claims about the worker's exit (checked under SpecRender)
\* ------------------------------------------------------------------------
\* the final artifacts in the object store
FinalArtifacts == { p \in store : p.name[1] = "final" }

\* C20: the worker exits with 0 or 1; with 0 if and only if render reached
\* Done and the final artifact was uploaded, exactly one; in every other run
\* (missing EDL_PATH, EDL download or parse failure, render failure, upload
\* failure) it exits with 1 and the store holds no final artifact.
C20_ExitCode ==
    IF pc = "exited"
    THEN /\ exitCode \in {0, 1}
         /\ exitCode = 0 <=> (stage = "Done" /\ Cardinality(FinalArtifacts) = 1)
         /\ exitCode = 1 => FinalArtifacts = {}
    ELSE exitCode = -1 /\ FinalArtifacts = {}

\* C20 witness: render reached Done, the upload failed and the worker exited
\* with 1.
C20_Witness ==
    /\ pc = "exited"
    /\ stage = "Done"
    /\ exitCode = 1
    /\ FinalArtifacts = {}

\* ------------------------------------------------------------------------
\* Claims about two calls of buildEDL (checked under SpecEffects)
\* ------------------------------------------------------------------------
\* C21: buildEDL is deterministic: the second call, made with the same
\* script, asset map and options as the first, returns a document equal to
\* the first call's in every field, whenever the two calls are made.
C21_Deterministic ==
    pc = "built" /\ res # NoResponse => edl = res.value

\* ------------------------------------------------------------------------
\* Claims about one whole job (checked under SpecJob)
\* ------------------------------------------------------------------------
\* the operations started for the visual slot of scene n
StartedFor(name, n) == Op(name, AssetKey("visual", n)) \in DOMAIN started

\* C22: no operation is retried: within one job every provider call of a
\* slot, every asset download and every transcoding step is started at most
\* once; a footage search for an image slot is the fallback of that slot's
\* image generation, which was started once before it.
C22_NoRetry ==
    /\ \A op \in DOMAIN started : started[op] <= 1
    /\ \A n \in 1 .. Len(script.scenes) :
           IssuesImage(script.scenes[n]) /\ StartedFor("search", n)
               => StartedFor("imagen", n)

\* a finished job whose image slot fell back to footage: every kind of
\* operation was started
C22_Witness ==
    /\ exitCode = 0
    /\ StartedFor("imagen", 1)
    /\ StartedFor("search", 1)
    /\ StartedFor("download", 1)
    /\ StartedFor("fetch", 1)
    /\ Op("tts", AssetKey("audio", 1)) \in DOMAIN started
    /\ Op("renderClip", <<"clip", 1>>) \in DOMAIN started
    /\ { Op(n, <<"", 0>>) : n \in {"concatenate", "mix", "combine"} } \subseteq DOMAIN started

\* ------------------------------------------------------------------------
\* Claims about the in-memory EDL of the render worker (checked under
\* SpecRender)
\* ------------------------------------------------------------------------
\* the in-memory asset k is the document's asset k, with at most a local
\* path added for a file that was downloaded
AnnotatedOnly(k) ==
    LET loaded == assets[k]
        stored == edl.assets[k]
    IN /\ DOMAIN stored \subseteq DOMAIN loaded
       /\ DOMAIN loaded \ DOMAIN stored \subseteq {"_localPath"}
       /\ \A f \in DOMAIN stored : loaded[f] = stored[f]
       /\ Has(loaded, "_localPath") /\ ~Has(stored, "_localPath")
              => IsGcsSource(stored) /\ loaded._localPath \in files

\* C23: render treats the EDL as read-only: over any run, successful or
\* failed, the in-memory assets are the assets of the loaded document, every
\* field unchanged, except for a _localPath annotation on the assets that
\* were downloaded.
C23_ReadOnlyButLocalPath ==
    stage # "NotStarted" =>
        /\ DOMAIN assets = DOMAIN edl.assets
        /\ \A k \in DOMAIN assets : AnnotatedOnly(k)

\* a run that ended, by success or by failure, after a download annotated an
\* asset
C23_Witness ==
    /\ pc = "exited"
    /\ \E k \in DOMAIN assets : Has(assets[k], "_localPath")

\* ------------------------------------------------------------------------
\* Claims about generateKenBurnsFilter (checked under SpecFilter)
\* ------------------------------------------------------------------------
\* the zoom the call asks for: the param, or the destructuring default
CallStartZoom == IF Has(req.params, "startZoom") THEN req.params.startZoom ELSE FilterStartZoom
CallEndZoom == IF Has(req.params, "endZoom") THEN req.params.endZoom ELSE FilterEndZoom
CallMaxZoom == IF CallStartZoom >= CallEndZoom THEN CallStartZoom ELSE CallEndZoom

C25_ScaleHeadroom ==
    pc = "filtered" =>
        /\ 200 * res.value.scaleWidth >= 3 * CallMaxZoom * res.value.width
        /\ 200 * res.value.scaleHeight >= 3 * CallMaxZoom * res.value.height

\* C25 witness: a filter whose exact pre-scale width is not a whole number
\* of pixels, so that the rounding matters
C25_Witness ==
    /\ pc = "filtered"
    /\ CallMaxZoom > 100
    /\ (3 * CallMaxZoom * res.value.width) % 200 # 0

\* C26: the pan X and pan Y expressions use the same easing law as the zoom
\* expression for every easing value, each scaled by half the frame width or
\* height (in units of 1/200 pixel: the pan value times the dimension).
C26_PanFollowsZoomLaw ==
    pc = "filtered" =>
        LET pan(f) == IF Has(req.params, f) THEN req.params[f] ELSE 0
        IN /\ res.value.panX.law = res.value.zoom.law
           /\ res.value.panY.law = res.value.zoom.law
           /\ res.value.panX.base = pan("startX") * res.value.width
           /\ res.value.panX.base + res.value.panX.diff = pan("endX") * res.value.width
           /\ res.value.panY.base = pan("startY") * res.value.height
           /\ res.value.panY.base + res.value.panY.diff = pan("endY") * res.value.height

\* ------------------------------------------------------------------------
\* Claims about the filters of a built document (checked under SpecEffects)
\* ------------------------------------------------------------------------
\* the scene's effects.kenBurns carries the field f
SceneDeclares(scene, f) == DeclaresKenBurns(scene) /\ Has(scene.effects.kenBurns, f)

\* C27: whenever zoom values are missing for an image clip (no
\* effects.kenBurns, or one without startZoom or endZoom), the zoom used for
\* the rendered clip is 1.0 -> 1.15, and a missing pan value is used as 0.
C27_MissingZoomDefault ==
    pc = "filtered" =>
        \A n \in DOMAIN filters :
            LET scene == ClipScene(VideoClips(edl)[n])
                f == filters[n]
            IN f.kind = "ken-burns" =>
                   /\ ~(SceneDeclares(scene, "startZoom") /\ SceneDeclares(scene, "endZoom"))
                          => /\ f.zoom.base = DefaultStartZoom
                             /\ f.zoom.base + f.zoom.diff = DefaultEndZoom
                   /\ ~SceneDeclares(scene, "startX") => f.panX.base = 0
                   /\ ~SceneDeclares(scene, "startY") => f.panY.base = 0
                   /\ ~SceneDeclares(scene, "endX") => f.panX.base + f.panX.diff = 0
                   /\ ~SceneDeclares(scene, "endY") => f.panY.base + f.panY.diff = 0

\* ------------------------------------------------------------------------
\* Claims about the worker's environment and output location (checked under
\* SpecWorker)
\* ------------------------------------------------------------------------
\* jobs/{jobId}/output/final.{format}
FinalForFormat(jobId, format) ==
    [scheme |-> "gs", name |-> <<"final", jobId>>, ext |-> "." \o format]

\* C28: after a successful render of an EDL declaring output format f, the
\* final artifact is stored at jobs/{jobId}/output/final.f, for every
\* output format, and that is the location the status endpoint checks.
C28_FinalNamedByFormat ==
    exitCode = 0 /\ config.jobId =>
        /\ FinalForFormat(JobId, edl.metadata.outputSettings.format) \in store
        /\ JobOutputPath(JobId) = FinalForFormat(JobId, edl.metadata.outputSettings.format)

\* C29: the worker requires both JOB_ID and EDL_PATH: when either is unset
\* it exits with code 1 without downloading, rendering or uploading
\* anything.
C29_BothRequired ==
    ~(config.jobId /\ config.edlPath) =>
        /\ stage = "NotStarted"
        /\ files = {}
        /\ store = {EdlStorePath}
        /\ pc = "exited" => exitCode = 1

\* ------------------------------------------------------------------------
\* Claims about a failed clip (checked under SpecRender)
\* ------------------------------------------------------------------------
\* C30: when the transcoding of one video clip fails, the clip is left out
\* and the remaining clips are still rendered: the clip loop fails the job
\* only at its end, when no clip at all was rendered.
C30_ClipFailureOmits ==
    stage = "Failed" /\ failure.at = "RenderingClips" =>
        /\ failure.what = <<"No clips were rendered", 0>>
        /\ clipIdx > Len(FindTrack(edl, "video").clips)

\* the fade filters a transcoding command carries in its filter graph
CommandFades(filter) == IF Has(filter, "fades") THEN filter.fades ELSE <<>>

\* C31: for every clip with an in or out transition of type fade or dissolve
\* the transcoding command renderClip runs contains the corresponding fade
\* filter (fade-in at 0, fade-out at duration - fadeDuration), and a clip
\* without such a transition gets none.  Violated: renderClip fills
\* videoFilters and never adds it to the command.
C31_FadesInCommand ==
    pc = "filtered" =>
        \A n \in DOMAIN filters :
            CommandFades(filters[n])
                = VideoFilters(VideoClips(edl)[n], VideoClips(edl)[n].duration)

\* ------------------------------------------------------------------------
\* Claims about the worker's commands (checked under SpecWorker)
\* ------------------------------------------------------------------------
\* C32: the concatenation re-encodes with the codec, preset and CRF declared
\* in the EDL: for an EDL built with options preset = p and crf = c,
\* concatenateClips is run with preset p and CRF c.  Violated: render hands
\* metadata.outputSettings to concatenateClips, and buildEDL writes preset
\* and crf to renderSettings.
C32_ConcatUsesDeclared ==
    DOMAIN concat # {} =>
        /\ concat.codec = IF edl.metadata.outputSettings.codec = "h265"
                          THEN "libx265" ELSE "libx264"
        /\ concat.preset = edl.renderSettings.preset
        /\ concat.crf = edl.renderSettings.crf

\* ------------------------------------------------------------------------
\* Claims about the audio block and the segments (checked under SpecRender)
\* ------------------------------------------------------------------------
\* C33: whenever audio mixing is skipped or produces no mixed stream, also
\* when the audio track has clips and none of their asset ids resolves, the
\* combine step is given no audio input.  Violated: render sets audioPath
\* before it awaits mixAudioTracks and resets it only when the mix throws.
C33_NoAudioWhenNotMixed ==
    stage \in {"Combining", "Done"} /\ mixOutcome # "mixed" => audioPath = NoPath

\* the paths of the video clips the clip loop does not skip, in track order
SurvivingSegments ==
    LET clips == FindTrack(edl, "video").clips
        kept == SelectSeq([n \in 1 .. Len(clips) |-> n], LAMBDA n : ~ClipSkipped(clips[n]))
    IN [k \in 1 .. Len(kept) |-> ClipPath(kept[k])]

\* C34: the list of segments handed to the concatenation is exactly the
\* rendered video clips in their original track order: a skipped clip
\* contributes no segment, no segment appears twice, and the relative order
\* of the surviving clips is unchanged.
C34_SegmentsInTrackOrder ==
    DOMAIN concat # {} =>
        /\ concat.segments = SurvivingSegments
        /\ \A m, n \in DOMAIN concat.segments :
               /\ concat.segments[m] = concat.segments[n] => m = n
               /\ m < n => concat.segments[m].name[2] < concat.segments[n].name[2]
        /\ \A n \in DOMAIN concat.segments : concat.segments[n] \in files

\* C34 witness: a concatenation of two rendered clips
C34_Witness ==
    /\ DOMAIN concat # {}
    /\ concat.segments = <<ClipPath(1), ClipPath(2)>>

\* a concatenation after the first of two clips was skipped
C34_WitnessSkipped ==
    /\ DOMAIN concat # {}
    /\ Len(FindTrack(edl, "video").clips) = 2
    /\ ClipSkipped(FindTrack(edl, "video").clips[1])
    /\ concat.segments = <<ClipPath(2)>>

\* C37: the audio filter graph mixAudioTracks builds is well-formed for every
\* audio track, also when some clips' assets are missing: the delay stages
\* read, and label, exactly the input indexes at which files were added, so
\* every label the mix stage consumes is defined and every defined label is
\* consumed.  Violated: the delay stages are numbered by clip index, the
\* inputs and the mix stage by the number of files added.
C37_MixGraphWellFormed ==
    mixOutcome \in {"mixed", "failed"} =>
        LET audioClips == FindTrack(edl, "audio").clips
        IN MixDelayIndexes(audioClips) = 1 .. Len(MixInputs(audioClips))

\* the asset ids the clips of the timeline reference
ReferencedAssets ==
    UNION { { edl.timeline.tracks[t].clips[n].assetId :
                n \in DOMAIN edl.timeline.tracks[t].clips } :
            t \in DOMAIN edl.timeline.tracks }

\* C40: the outcome of a render depends only on the assets that clips of the
\* timeline reference: a failed download of an asset no clip references does
\* not fail the job.  Violated: the download loop fetches every entry of
\* edl.assets and a failure of any of them throws.
C40_UnreferencedIsHarmless ==
    failure.at = "Downloading" => failure.what \in ReferencedAssets

\* ------------------------------------------------------------------------
\* Claims about hand-authored documents (checked under SpecWorker)
\* ------------------------------------------------------------------------
\* C38: for every audio clip that is mixed, the local file the mixer reads is
\* the file the download stage wrote for that asset: same asset id, same
\* extension (the source's own when it has one, else the type-inferred
\* one).  Violated: the mixer builds the path with the extension .mp3.
C38_MixerReadsDownloaded ==
    mixOutcome \in {"mixed", "failed"} =>
        LET audioClips == FindTrack(edl, "audio").clips
            kept == SelectSeq(audioClips, LAMBDA c : c.assetId \in DOMAIN assets)
        IN \A n \in 1 .. Len(kept) :
               Has(assets[kept[n].assetId], "_localPath")
                   => MixInputs(audioClips)[n] = assets[kept[n].assetId]._localPath

\* C39: every segment that reaches the concatenation was rendered with a
\* filter that fixes it to the output resolution and fps (the Ken Burns
\* graph or scale+pad+fps), for every type of a downloaded asset a
\* video-track clip references.  Violated: renderClip has branches for image
\* and video types only, any other type is transcoded without a filter.
C39_SegmentsShareGeometry ==
    DOMAIN concat # {} =>
        /\ Len(filters) = Len(concat.segments)
        /\ \A n \in DOMAIN filters :
               /\ filters[n].kind \in {"ken-burns", "scale-pad"}
               /\ filters[n].width = edl.metadata.outputSettings.width
               /\ filters[n].height = edl.metadata.outputSettings.height
               /\ filters[n].fps = edl.metadata.outputSettings.fps

\* ------------------------------------------------------------------------
\* Claims about the order of the controller's steps (checked under the
\* "routes" specification)
\* ------------------------------------------------------------------------
\* C35: in every execution of orchestrateVideoGeneration and of /render the
\* steps happen in the order script generation, asset fan-out, EDL build, EDL
\* persist, dispatch: a render job is dispatched only after the EDL was
\* persisted at the location passed to the renderer, after every asset
\* operation was fulfilled and the EDL built, and never when the script
\* generation or the save of the EDL failed.
C35_DispatchAfterPersist ==
    /\ \A n \in DOMAIN runJobCalls : runJobCalls[n].edlPath \in store
    /\ Len(runJobCalls) <= 1
    /\ req.route = "generate" =>
           /\ pc \in {"recv", "script", "fanout", "await", "buildEdl", "saveEdl", "dispatch", "threw"}
                  => runJobCalls = <<>>
           /\ pc \in {"recv", "script", "fanout", "await", "buildEdl"} 
                  => edl = NoEDL /\ EdlStorePath \notin store
           /\ pc \in {"recv", "script", "fanout"} => tasks = <<>>
           /\ pc \in {"buildEdl", "saveEdl", "dispatch", "returned"} => AllFulfilled(tasks)
           /\ pc \in {"saveEdl", "dispatch", "returned"} => edl # NoEDL
           /\ pc \in {"dispatch", "returned"} => EdlStorePath \in store
           /\ res = Response(500, [error |-> "Failed to generate video"]) => runJobCalls = <<>>
           /\ runJobCalls # <<>> =>
                  /\ runJobCalls[1].edlPath = EdlStorePath
                  /\ AllFulfilled(tasks)
                  /\ edl # NoEDL
    /\ req.route = "render" =>
           /\ res = Response(500, [error |-> "save failed"]) => runJobCalls = <<>>
           /\ runJobCalls # <<>> => runJobCalls[1].edlPath = JobEdlPath(JobId)

\* C35 witness: /generate answered after a dispatch for a script with scenes
C35_Witness ==
    /\ req.route = "generate"
    /\ pc = "responded"
    /\ script.scenes # <<>>
    /\ runJobCalls # <<>>
    /\ EdlStorePath \in store

\* /render answered after the EDL was saved and the job dispatched
C35_WitnessRender ==
    /\ req.route = "render"
    /\ pc = "responded"
    /\ runJobCalls # <<>>
    /\ JobEdlPath(JobId) \in store

\* ------------------------------------------------------------------------
\* Claims about the operations of the fan-out (checked under the
\* orchestration specification)
\* ------------------------------------------------------------------------
\* the operations of the given kinds issued for the scene
IssuedFor(scene, kinds) ==
    { t \in DOMAIN tasks : tasks[t].scene = scene.id /\ tasks[t].kind \in kinds }

\* C36: for a script of N scenes the fan-out issues at most 2N operations:
\* per scene one visual operation exactly when (visualType = image and
\* imagePrompt is set) or (visualType = video and searchQuery is set), and
\* one narration operation exactly when the narration is non-empty; the
\* footage fallback is attempted only for image scenes and only after their
\* image generation failed.
C36_FanOutBounded ==
    pc # "fanout" =>
        /\ Len(tasks) <= 2 * Len(script.scenes)
        /\ \A t \in DOMAIN tasks : tasks[t].scene \in 1 .. Len(script.scenes)
        /\ \A n \in 1 .. Len(script.scenes) :
               LET scene == script.scenes[n]
                   image == scene.visualType = "image" /\ Has(scene, "imagePrompt")
                   video == scene.visualType = "video" /\ Has(scene, "searchQuery")
                   key == AssetKey("visual", scene.id)
               IN /\ Cardinality(IssuedFor(scene, {"image"})) = IF image THEN 1 ELSE 0
                  /\ Cardinality(IssuedFor(scene, {"video"})) = IF video THEN 1 ELSE 0
                  /\ Cardinality(IssuedFor(scene, {"speech"}))
                         = IF scene.narration # 0 THEN 1 ELSE 0
                  /\ Op("imagen", key) \in DOMAIN started => image
                  /\ Op("search", key) \in DOMAIN started => image \/ video
                  /\ Op("tts", AssetKey("audio", scene.id)) \in DOMAIN started
                         => scene.narration # 0
                  /\ image /\ Op("search", key) \in DOMAIN started
                         => /\ Op("imagen", key) \in DOMAIN started
                            /\ key \in DOMAIN assets
                                   => assets[key].type # "generated-image"

\* C36 witness: two scenes, four operations, and the footage fallback of an
\* image scene under way
C36_Witness ==
    /\ pc = "await"
    /\ Len(script.scenes) = 2
    /\ Len(tasks) = 4
    /\ \E n \in 1 .. 2 :
           /\ script.scenes[n].visualType = "image"
           /\ Op("search", AssetKey("visual", n)) \in DOMAIN started
    /\ \E n \in 1 .. 2 : script.scenes[n].visualType = "video"
====
